---- MODULE Spec2Model ----
(***************************************************************************)
(* A model of one subprocess object of subprocess.hpp (POSIX build): the   *)
(* three Stdio bindings and their native handles, process creation under   *)
(* the fork and the posix_spawn strategies, the poll() pump                *)
(* (multiplexing_use_poll), wait_for_exit() and the child processes that   *)
(* run concurrently with the parent (specification Spec); and the          *)
(* pipeline of tests/test_pipe.cc, three objects sharing two Pipes          *)
(* (specification ChainSpec); the environment named arguments and the      *)
(* environment the child starts with (specification EnvSpec); and the      *)
(* thread-per-stream pump read_write_per_thread of the Windows build       *)
(* (specification ThreadSpec); one child run under the poll, the select    *)
(* and the thread pump in turn (PumpSpec); the child branch of fork() with *)
(* descriptor numbers (ChildSpec); the single object or the pipeline       *)
(* (ObjectsSpec); and the command line of the Windows build (WinSpec).     *)
(*                                                                         *)
(* Pipes are kernel objects: a bounded byte queue with blocking writes     *)
(* (create_pipe never sets O_NONBLOCK) and Linux poll() semantics:         *)
(*   write end: POLLOUT iff the queue is not full, POLLERR iff no reader;  *)
(*   read end : POLLIN  iff the queue is not empty, POLLHUP iff no writer. *)
(***************************************************************************)
EXTENDS Integers, Sequences, FiniteSets, TLC

\* Bounds of the model: longest stdin payload, longest output per stream.
MaxIn == 6
MaxOut == 3
\* Longest payload and output when posix_spawn is called twice (two children).
MaxTwin == 1
\* Most bytes the first stage of the pipeline writes.
MaxChain == 2
\* Prior content of a redirect file, longest output written to a file.
MaxPrior == 1
MaxFile == 1
\* Most calls of close_all() on one object.
MaxCloseAll == 2
\* Most environment named arguments passed to one subprocess object.
MaxEnvArgs == 2
\* Thread-per-stream pump: longest stdin payload, longest output per stream.
MaxThreadIn == 1
MaxThreadOut == 1
\* The three pumps on one child: longest stdin payload, longest output.
MaxPumpIn == 1
MaxPumpOut == 2
\* Most bytes the capture buffer holds before the run.
MaxPumpPrior == 1
\* Most arguments after the program name, and most characters of an argument.
MaxCmdArgs == 1
MaxArgLen == 3

\* Capacity of a kernel pipe and size of the pump's read chunk (char buf[..]),
\* scaled down; the pipe holds more than one chunk, as 65536 > 1024.
PipeCap == 2
ChunkSize == 1

INVALID_NATIVE_HANDLE_VALUE == -1

Streams == 0 .. 2
Children == 1 .. 2
Kinds == {"none", "file", "buffer", "pipe"}
Progs == {"cat", "gen", "noexec"}
Strategies == {"fork", "posix_spawn"}

\* Exit statuses a child program may choose, and the ones the kernel imposes.
ExitStatuses == {<<"exited", 255>>, <<"signaled", 9>>}
SigPipe == <<"signaled", 13>>
NoStatus == <<"none", 0>>

VARIABLES
  cfg,        \* strategy, env_ emptiness, redirect_ kind per stream, child program
  in_buf,     \* stdin payload (Buffer::buf() of stdin_)
  out_buf,    \* captured stdout
  err_buf,    \* captured stderr
  hnd,        \* per stream: state of the native handles r (fds_[0]), w (fds_[1]), f (File::fd_)
  pfd,        \* pollfd[i].fd != INVALID_NATIVE_HANDLE_VALUE
  revents,    \* pollfd[i].revents of the last poll()
  sent,       \* bytes removed from stdin_str
  wr,         \* bytes the write() in progress has already put in the pipe
  pipe,       \* kernel queue of each Buffer's pipe
  child,      \* the created child processes
  pid_,       \* subprocess::pid_
  attempts,   \* process-creation calls issued (fork / posix_spawn)
  waited,     \* children reaped by waitpid
  waitpid_calls, \* calls of waitpid() issued by wait_for_exit()
  open_failed,\* stream whose File could not be opened, or -1
  err,        \* the std::runtime_error in flight: which call threw, or "none"
  result,     \* value returned by wait_for_exit(), or "none"
  pc,         \* position of the parent
  file,       \* content of the files that stdout (1) and stderr (2) are redirected to
  closes,     \* per native handle: close() calls issued on its descriptor
  close_all_calls, \* calls of Stdio::close_all() on the three bindings
  \* A pipeline of three subprocess objects (tests/test_pipe.cc):
  c_pc,       \* position of the parent in p1.run_no_wait() ... p3.wait_for_exit()
  c_fd,       \* the parent's native handles of pipe1, pipe2 and out's Buffer pipe
  c_proc,     \* the three children
  c_pipe,     \* bytes queued in each of the three kernel pipes
  c_out,      \* bytes captured in out
  c_res,      \* value returned by each wait_for_exit(), or "none"
  \* The environment named arguments of one subprocess object:
  e_pc,       \* "args", "evaluated", "constructed" or "exec"
  e_environ,  \* the parent's environment (char **environ) as a map
  e_args,     \* the named-argument expressions the caller wrote
  e_named,    \* the Env / EnvItemAppend objects the expressions evaluate to
  env_,       \* subprocess::env_
  e_child,    \* the environment the child's program starts with
  \* The thread-per-stream pump (read_write_per_thread, the pump of the
  \* Windows build) of one run():
  t_cfg,      \* the streams bound to Buffers, length of the stdin payload and
              \* of the child's outputs, stdout and stderr bound to one vector
  t_pc,       \* position of the calling thread
  t_thr,      \* per stream: state of its pump thread
  t_left,     \* bytes of the stdin payload not yet written
  t_pipe,     \* bytes queued in each Buffer pipe
  t_got,      \* the vectors that the Buffers of stdout and stderr refer to
  t_child,    \* the child: state and bytes it still has to write
  t_failed,   \* streams on which a read or write call failed
  t_res,      \* value returned by run(), or "none"
  \* The same child run under multiplexing_use_poll, multiplexing_use_select
  \* and read_write_per_thread, one run after the other:
  m_cfg,      \* the stdin payload and the content of the capture buffer as the
              \* caller hands them over, the bytes the child writes to stdout
  m_in,       \* in_buf
  m_run,      \* index of the pump in use, Len(PumpOrder) + 1 after the last run
  m_pc,       \* position of the thread that called the pump
  m_open,     \* streams whose parent-side descriptor is open
  m_rev,      \* events that the last poll() / select() reported, per stream
  m_thr,      \* per stream: state of its thread (read_write_per_thread)
  m_sent,     \* bytes removed from stdin_str / write_view
  m_pipe,     \* kernel queue of each Buffer's pipe
  m_out,      \* out_buf
  m_child,    \* the child: state, bytes read from descriptor 0, bytes written
  m_end,      \* per finished run: out_buf, the child's input, open descriptors
  \* The child branch of fork() (execute_command_in_child), with descriptor
  \* numbers:
  x_cfg,      \* redirect_ kind per stream, cwd_, descriptors closed in the parent
  x_pc,       \* position of the child
  x_fd,       \* descriptor table: what each descriptor number refers to
  x_h,        \* per stream: the numbers stored in fds_[0], fds_[1] and fd_
  x_status,   \* exit status of the child, or -1
  \* The command line of the Windows build (create_command_string_data):
  w_pc,       \* position: command line not built, built, child started
  w_cmds,     \* cmds, the argument vector: a sequence of sequences of characters
  w_command,  \* command, the characters handed to CreateProcess
  w_argv      \* the argument vector the child's startup code splits it into

run_vars == <<cfg, in_buf, out_buf, err_buf, hnd, pfd, revents, sent, wr,
              pipe, child, pid_, attempts, waited, waitpid_calls, open_failed,
              err, result, pc, file, closes, close_all_calls>>
chain_vars == <<c_pc, c_fd, c_proc, c_pipe, c_out, c_res>>
env_vars == <<e_pc, e_environ, e_args, e_named, env_, e_child>>
thread_vars == <<t_cfg, t_pc, t_thr, t_left, t_pipe, t_got, t_child,
                 t_failed, t_res>>
pump_vars == <<m_cfg, m_in, m_run, m_pc, m_open, m_rev, m_thr, m_sent, m_pipe,
               m_out, m_child, m_end>>
child_vars == <<x_cfg, x_pc, x_fd, x_h, x_status>>
win_vars == <<w_pc, w_cmds, w_command, w_argv>>
vars == <<run_vars, chain_vars, env_vars, thread_vars, pump_vars, child_vars,
          win_vars>>
\* What the actions of each part of the model leave alone.
not_run_vars == <<chain_vars, env_vars, thread_vars, pump_vars, child_vars,
  win_vars>>
not_chain_vars == <<run_vars, env_vars, thread_vars, pump_vars, child_vars,
  win_vars>>
not_env_vars == <<run_vars, chain_vars, thread_vars, pump_vars, child_vars,
  win_vars>>
not_thread_vars == <<run_vars, chain_vars, env_vars, pump_vars, child_vars,
  win_vars>>
not_pump_vars == <<run_vars, chain_vars, env_vars, thread_vars, child_vars,
  win_vars>>
not_child_vars == <<run_vars, chain_vars, env_vars, thread_vars, pump_vars,
  win_vars>>
not_win_vars == <<run_vars, chain_vars, env_vars, thread_vars, pump_vars,
  child_vars>>

----------------------------------------------------------------------------
(* Helpers *)

Min(a, b) == IF a < b THEN a ELSE b

Take(s, n) == SubSeq(s, 1, Min(n, Len(s)))
Drop(s, n) == SubSeq(s, Min(n, Len(s)) + 1, Len(s))

\* Payload of n bytes starting after base: <<base+1, ..., base+n>>.
Bytes(base, n) == [i \in 1 .. n |-> base + i]

\* A native handle is "open" (valid value, descriptor open), "stale" (valid
\* value kept in the object, descriptor already closed through a copy),
\* "invalid" (INVALID_NATIVE_HANDLE_VALUE, descriptor closed or never made)
\* or "leaked" (INVALID_NATIVE_HANDLE_VALUE stored, descriptor still open).
HandleStates == {"open", "stale", "invalid", "leaked"}
IsValid(h) == h \in {"open", "stale"}
OsOpen(h) == h \in {"open", "leaked"}

NoHandles == [r |-> "invalid", w |-> "invalid", f |-> "invalid"]

\* close_native_handle(handle): close() only when the value is valid, then
\* store INVALID_NATIVE_HANDLE_VALUE.
close_without_reset(h) == h
close_native_handle(h) == IF IsValid(h) THEN "invalid" ELSE h

\* close_native_handle issues close() exactly when the stored value is valid.
IssuesClose(h) == IsValid(h)

\* The close() counters after close() was issued on the handles in S.
Bump(cl, S) ==
  [b \in DOMAIN cl |->
     [e \in DOMAIN cl[b] |-> cl[b][e] + (IF <<b, e>> \in S THEN 1 ELSE 0)]]

\* Pipe::create(): both ends valid and open.
create_pipe == [r |-> "open", w |-> "open", f |-> "invalid"]

\* Index of the end the child uses / the parent keeps: fileno() == 0 ? 0 : 1
\* for the child, fileno() == 0 ? 1 : 0 for the parent.
ChildEnd(b) == IF b = 0 THEN "r" ELSE "w"
ParentEnd(b) == IF b = 0 THEN "w" ELSE "r"

----------------------------------------------------------------------------
(* Construction *)

\* Stdio(): redirect_ == nullptr, no handle.  Stdio(File): fd_ invalid until
\* prepare_redirection.  Stdio(buf) / Stdio(Pipe): the pipe exists already.
StdioInit(k) == IF k \in {"buffer", "pipe"} THEN create_pipe ELSE NoHandles

\* io: what the child's descriptors 0, 1 and 2 are.
NoChild == [st |-> "none", hold |-> <<>>, opos |-> 0, epos |-> 0,
            io |-> [b \in Streams |-> "none"],
            status |-> NoStatus]

\* The pipeline of tests/test_pipe.cc: p1 writes to pipe1, p2 reads pipe1 and
\* writes to pipe2, p3 reads pipe2 and its stdout is captured in out.  Pipe 3
\* is the pipe of out's Buffer.  All three objects exist (and so do the three
\* pipes) before the first run_no_wait().
Stages == 1 .. 3
ChainPipes == 1 .. 3
Ends == {"r", "w"}
StdinPipe(s) == s - 1
StdoutPipe(s) == s

NoProc == [st |-> "none", io |-> {}, leaks |-> {}, left |-> 0, hold |-> 0,
           status |-> NoStatus]

ChainStart(n) ==
  /\ c_pc = [op |-> "fork", s |-> 1]
  /\ c_fd = [p \in ChainPipes |-> [r |-> "open", w |-> "open"]]
  /\ c_proc = [s \in Stages |-> [NoProc EXCEPT !.left = IF s = 1 THEN n ELSE 0]]
  /\ c_pipe = [p \in ChainPipes |-> 0]
  /\ c_out = 0
  /\ c_res = [s \in Stages |-> "none"]

Handles == {"r", "w", "f"}
FileStreams == 1 .. 2

\* ap[b]: the File of stream b was made with append (operator >>); pr[b]: the
\* number of bytes its file holds before the run.
RunStart(s, e, k, p, ni, no, ne, ap, pr) ==
    /\ cfg = [strategy |-> s, env_empty |-> e, kind |-> k, prog |-> p,
              out_data |-> Bytes(10, no), err_data |-> Bytes(20, ne),
              append |-> ap, prior |-> [b \in FileStreams |-> Bytes(30, pr[b])]]
    /\ file = [b \in FileStreams |-> Bytes(30, pr[b])]
    /\ closes = [b \in Streams |-> [h \in Handles |-> 0]]
    /\ close_all_calls = 0
    /\ in_buf = Bytes(0, ni)
    /\ out_buf = <<>>
    /\ err_buf = <<>>
    /\ hnd = [b \in Streams |-> StdioInit(k[b])]
    /\ pfd = [b \in Streams |-> FALSE]
    /\ revents = [b \in Streams |-> {}]
    /\ sent = 0
    /\ wr = 0
    /\ pipe = [b \in Streams |-> <<>>]
    /\ child = [c \in Children |-> NoChild]
    /\ pid_ = INVALID_NATIVE_HANDLE_VALUE
    /\ attempts = 0
    /\ waited = {}
    /\ waitpid_calls = 0
    /\ open_failed = -1
    /\ err = "none"
    /\ result = "none"
    /\ pc = "start"

----------------------------------------------------------------------------
(* Environment named arguments *)

\* Names and values of environment variables; a value is a string of
\* characters.  environ holds each name at most once, so it is a map.
EnvKeys == {"PATH", "env1"}
EnvVals == {<<"a">>, <<"b">>}
EnvMaps == UNION {[D -> EnvVals] : D \in SUBSET EnvKeys}

\* The expressions a caller can write: env = M, env += M, env[key] += val.
EnvExprs ==
  [op : {"assign", "add"}, m : EnvMaps, key : {"PATH"}, val : {<<>>}]
    \cup [op : {"append"}, m : {<<>>}, key : EnvKeys, val : EnvVals]

\* std::map::insert(first, last): a key that is already present keeps its value.
map_insert(m, n) ==
  [k \in DOMAIN m \cup DOMAIN n |-> IF k \in DOMAIN m THEN m[k] ELSE n[k]]

\* env_operator::operator= and operator+=, env_operator::operator[] followed
\* by EnvItemAppend::operator+=.
env_assign(m) == [type |-> "Env", env |-> m, kv |-> <<>>]
env_add(environ, m) ==
  [type |-> "Env", env |-> map_insert(environ, m), kv |-> <<>>]
env_item_append(key, val) ==
  [type |-> "EnvItemAppend", env |-> <<>>, kv |-> <<key, val>>]

Evaluate(environ, x) ==
  CASE x.op = "assign" -> env_assign(x.m)
    [] x.op = "add"    -> env_add(environ, x.m)
    [] x.op = "append" -> env_item_append(x.key, x.val)

\* The constructor's fold over its arguments: every Env is inserted into
\* `environments`, every EnvItemAppend is pushed onto `env_appends`, a local
\* that nothing reads; env_ = environments.
RECURSIVE environments(_)
environments(named) ==
  IF named = <<>> THEN <<>>
  ELSE LET rest == environments(SubSeq(named, 1, Len(named) - 1))
           arg  == named[Len(named)]
       IN  IF arg.type = "Env" THEN map_insert(rest, arg.env) ELSE rest

\* execute_command_in_child: execve with env_ when it is not empty, execv
\* (the inherited environ) when it is.
child_environment(environ, e) == IF e # <<>> THEN e ELSE environ

EnvStart(environ, args) ==
  /\ e_pc = "args"
  /\ e_environ = environ
  /\ e_args = args
  /\ e_named = <<>>
  /\ env_ = <<>>
  /\ e_child = <<>>

\* The thread-per-stream pump right after the child was created: Buffers on
\* the streams in bufs, ni bytes to send, the child has no / ne bytes to write;
\* sh: std_out > buf and std_err > buf name the same std::vector.
ThreadStart(bufs, ni, no, ne, sh) ==
  /\ t_cfg = [buffers |-> bufs, input |-> ni, output |-> <<no, ne>>,
              shared |-> sh]
  /\ t_pc = "spawned"
  /\ t_thr = [b \in Streams |-> "none"]
  /\ t_left = ni
  /\ t_pipe = [b \in Streams |-> 0]
  /\ t_got = [b \in FileStreams |-> <<>>]
  /\ t_child = [st |-> "run", left |-> <<no, ne>>]
  /\ t_failed = {}
  /\ t_res = "none"

\* The pumps are called in this order, each on a fresh child and fresh pipes.
PumpOrder == <<"poll", "select", "thread">>

\* The state in which manage_pipe_io calls a pump: stdin and stdout are bound
\* to Buffers, stderr is not (its handle is INVALID_NATIVE_HANDLE_VALUE); the
\* child's ends are closed in the parent, the child runs.
PumpFresh ==
  /\ m_pc' = "enter"
  /\ m_open' = {0, 1}
  /\ m_rev' = [b \in Streams |-> {}]
  /\ m_thr' = [b \in Streams |-> "none"]
  /\ m_sent' = 0
  /\ m_pipe' = [b \in Streams |-> <<>>]
  /\ m_out' = m_cfg.prior
  /\ m_child' = [st |-> "read", got |-> <<>>, opos |-> 0]

PumpStart(ni, no, np, run) ==
  /\ m_cfg = [input |-> Bytes(0, ni), output |-> Bytes(10, no),
              prior |-> Bytes(40, np)]
  /\ m_in = Bytes(0, ni)
  /\ m_run = run
  /\ m_pc = "enter"
  /\ m_open = {0, 1}
  /\ m_rev = [b \in Streams |-> {}]
  /\ m_thr = [b \in Streams |-> "none"]
  /\ m_sent = 0
  /\ m_pipe = [b \in Streams |-> <<>>]
  /\ m_out = Bytes(40, np)
  /\ m_child = [st |-> "read", got |-> <<>>, opos |-> 0]
  /\ m_end = [k \in 1 .. Len(PumpOrder) |-> <<>>]

\* Descriptor numbers: 0, 1 and 2 and the six more that three pipes take.
Fds == 0 .. 8

\* What a descriptor number refers to: nothing, what the parent inherited as
\* its own standard stream n, an end of the pipe of stream b, the file of
\* stream b.
ClosedFd == <<"closed", -1, "">>
StdFd(n) == <<"std", n, "">>
PipeFd(b, e) == <<"pipe", b, e>>
FileFd(b) == <<"file", b, "">>

NoFds == [r |-> INVALID_NATIVE_HANDLE_VALUE, w |-> INVALID_NATIVE_HANDLE_VALUE,
          f |-> INVALID_NATIVE_HANDLE_VALUE]

\* pipe() and open() return the lowest descriptor numbers that are not open.
LowestFree(t) ==
  CHOOSE n \in Fds : t[n] = ClosedFd /\ \A m \in Fds : m < n => t[m] # ClosedFd
OpenAs(t, obj) == [t EXCEPT ![LowestFree(t)] = obj]
NumberOf(t, obj) ==
  IF \E n \in Fds : t[n] = obj THEN CHOOSE n \in Fds : t[n] = obj
  ELSE INVALID_NATIVE_HANDLE_VALUE

\* The Pipes and the Buffers' pipes are created when the Stdio objects are
\* constructed (Pipe::create), here for stdin, stdout, stderr in this order.
RECURSIVE PipesCreated(_, _, _)
PipesCreated(t, k, b) ==
  IF b \notin Streams THEN t
  ELSE IF k[b] \in {"pipe", "buffer"}
    THEN PipesCreated(OpenAs(OpenAs(t, PipeFd(b, "r")), PipeFd(b, "w")), k, b + 1)
    ELSE PipesCreated(t, k, b + 1)

\* prepare_all_stdio_redirections opens the Files, stdin first.
RECURSIVE FilesOpened(_, _, _)
FilesOpened(t, k, b) ==
  IF b \notin Streams THEN t
  ELSE IF k[b] = "file" THEN FilesOpened(OpenAs(t, FileFd(b)), k, b + 1)
  ELSE FilesOpened(t, k, b + 1)

\* The parent right before fork(): it was started with the standard streams
\* in `closed` closed, constructed the bindings and prepared them.
ParentFds(k, closed) ==
  FilesOpened(
    PipesCreated([n \in Fds |-> IF n \in Streams \ closed THEN StdFd(n)
                                                        ELSE ClosedFd], k, 0),
    k, 0)

\* The command line part before (pc = "cmds") or without (pc = "unused") a
\* call of create_command_string_data.
WinStart(cmds, at) ==
  /\ w_pc = at
  /\ w_cmds = cmds
  /\ w_command = <<>>
  /\ w_argv = <<>>

ChildStart(k, cwd, closed) ==
  /\ x_cfg = [kind |-> k, cwd |-> cwd, closed |-> closed]
  /\ x_pc = "prepared"
  /\ x_fd = ParentFds(k, closed)
  /\ x_h = [b \in Streams |->
              [r |-> NumberOf(x_fd, PipeFd(b, "r")),
               w |-> NumberOf(x_fd, PipeFd(b, "w")),
               f |-> NumberOf(x_fd, FileFd(b))]]
  /\ x_status = -1

\* Only a stream the child writes to (a buffer or a file of "gen") has output;
\* a file that "gen" writes to holds MaxPrior bytes before the run and is
\* opened in either mode.
Init ==
  \E s \in Strategies, e \in BOOLEAN, k \in [Streams -> Kinds], p \in Progs,
     ni \in 0 .. MaxIn, no \in 0 .. MaxOut, ne \in 0 .. MaxOut,
     ap \in [FileStreams -> BOOLEAN], pr \in [FileStreams -> 0 .. MaxPrior] :
    /\ (k[0] # "buffer" => ni = 0)
    /\ (s = "posix_spawn" /\ ~e
          => ni <= MaxTwin /\ no <= MaxTwin /\ ne <= MaxTwin)
    /\ ((p # "gen" \/ k[1] \notin {"buffer", "file"}) => no = 0)
    /\ ((p # "gen" \/ k[2] \notin {"buffer", "file"}) => ne = 0)
    /\ (k[1] = "file" => no <= MaxFile)
    /\ (k[2] = "file" => ne <= MaxFile)
    /\ \A b \in FileStreams :
         IF p = "gen" /\ k[b] = "file" THEN pr[b] = MaxPrior
                                       ELSE ~ap[b] /\ pr[b] = 0
    /\ RunStart(s, e, k, p, ni, no, ne, ap, pr)
    /\ ChainStart(0)
    /\ EnvStart(<<>>, <<>>)
    /\ ThreadStart({}, 0, 0, 0, FALSE)
    /\ PumpStart(0, 0, 0, Len(PumpOrder) + 1)
    /\ ChildStart([b \in Streams |-> "none"], "", {})
    /\ WinStart(<<>>, "unused")

----------------------------------------------------------------------------
(* Kernel view of the pipes *)

Live(c) == child[c].st = "run"

\* A running child holds exactly its descriptors 0, 1, 2: the read end of the
\* stdin pipe and the write ends of the stdout and stderr pipes
\* (setup_stdio_in_child_process / setup_stdio_for_posix_spawn close the rest).
\* The parent holds whatever ends it has not closed.
Readers(b, h) ==
  OsOpen(h[b].r) \/ \E c \in Children : Live(c) /\ child[c].io[b] = "r"
Writers(b, h) ==
  OsOpen(h[b].w) \/ \E c \in Children : Live(c) /\ child[c].io[b] = "w"

Space(b) == PipeCap - Len(pipe[b])

----------------------------------------------------------------------------
(* subprocess::prepare_all_stdio_redirections *)

\* Stdio::prepare_redirection for stream b: a File is opened (open_for_read
\* for stdin, open_for_write otherwise); Pipe and Buffer need nothing on POSIX.
prepare_redirection(h, k) ==
  IF k = "file" THEN [h EXCEPT !.f = "open"] ELSE h

\* File::open_impl: open() == -1 throws "open failed: <path>"; fail is the
\* stream whose file cannot be opened, -1 when every open() succeeds.
open_impl_nothrow(fail) == "prepared"
open_impl(fail) == IF fail = -1 THEN "prepared" ELSE "threw"

\* File::open_for_write: O_WRONLY | O_CREAT | O_APPEND keeps the content,
\* O_WRONLY | O_CREAT | O_TRUNC discards it.
open_for_write(content, append) == IF append THEN content ELSE <<>>

\* The streams are prepared in the order 0, 1, 2; open_impl throws at the
\* first file that cannot be opened (fail), leaving the later ones untouched.
Prepare ==
  /\ pc = "start"
  /\ \E fail \in {-1} \cup {b \in Streams : cfg.kind[b] = "file"} :
       /\ hnd' = [b \in Streams |->
                    IF fail = -1 \/ b < fail
                      THEN prepare_redirection(hnd[b], cfg.kind[b])
                      ELSE hnd[b]]
       /\ file' = [b \in FileStreams |->
                     IF cfg.kind[b] = "file" /\ (fail = -1 \/ b < fail)
                       THEN open_for_write(file[b], cfg.append[b])
                       ELSE file[b]]
       /\ open_failed' = fail
       /\ err' = IF fail = -1 THEN "none" ELSE "open"
       /\ pc' = open_impl(fail)
  /\ UNCHANGED <<cfg, in_buf, out_buf, err_buf, pfd, revents, sent, wr, pipe,
                 child, pid_, attempts, waited, waitpid_calls, result,
                 not_run_vars, closes, close_all_calls>>

----------------------------------------------------------------------------
(* Process creation: subprocess::run_no_wait *)

\* Stdio::prepare_redirection opens the File of stdin with open_for_read and
\* the File of stdout / stderr with open_for_write.
open_type(b, append) ==
  IF b = 0 THEN "ReadOnly"
  ELSE IF append THEN "WriteAppend" ELSE "WriteTruncate"

\* What becomes the child's descriptor b (= fileno()) by dup2: an end of the
\* Pipe or of the Buffer's pipe, the File's descriptor (named by the way it
\* was opened), or nothing, in which case the parent's descriptor is inherited.
setup_stdio_swapped(k, b, ot) ==
  IF k \in {"pipe", "buffer"} THEN ParentEnd(b)
  ELSE IF k = "file" THEN ot ELSE "inherited"
setup_stdio_in_child_process(k, b, ot) ==
  IF k \in {"pipe", "buffer"} THEN (IF b = 0 THEN "r" ELSE "w")
  ELSE IF k = "file" THEN ot ELSE "inherited"
setup_stdio_for_posix_spawn(k, b, ot) ==
  IF k \in {"pipe", "buffer"} THEN (IF b = 0 THEN "r" ELSE "w")
  ELSE IF k = "file" THEN ot ELSE "inherited"

OpenTypeOf(b) == open_type(b, b # 0 /\ cfg.append[b])

\* The child of fork() after execute_command_in_child's three setup calls, and
\* the child posix_spawn makes from the file actions.
Forked ==
  [NoChild EXCEPT !.st = "run",
     !.io = [b \in Streams |->
               setup_stdio_in_child_process(cfg.kind[b], b, OpenTypeOf(b))]]
Started ==
  [NoChild EXCEPT !.st = "run",
     !.io = [b \in Streams |->
               setup_stdio_for_posix_spawn(cfg.kind[b], b, OpenTypeOf(b))]]

\* fork(): pid < 0 throws "fork failed" with nothing closed; otherwise the
\* child (execute_command_in_child) exists and pid_ = pid.
SpawnFork ==
  /\ pc = "prepared"
  /\ cfg.strategy = "fork"
  /\ attempts' = attempts + 1
  /\ \E ok \in BOOLEAN :
       IF ok
         THEN /\ child' = [child EXCEPT ![1] = Forked]
              /\ pid_' = 1
              /\ pc' = "spawned"
              /\ UNCHANGED err
         ELSE /\ pc' = "threw"
              /\ err' = "fork"
              /\ UNCHANGED <<child, pid_>>
  /\ UNCHANGED <<cfg, in_buf, out_buf, err_buf, hnd, pfd, revents, sent, wr,
                 pipe, waited, waitpid_calls, open_failed, result,
                 not_run_vars, file, closes, close_all_calls>>

\* add_posix_spawn_file_actions: with a non-empty env_ posix_spawn is called
\* inside the if-block and then called again after it; with an empty env_ only
\* the second call runs.  Each call stores the new pid in pid_ on success and
\* the code stores INVALID_NATIVE_HANDLE_VALUE on failure.  run_no_wait then
\* goes on to manage_pipe_io() whatever happened.
SpawnPosix ==
  /\ pc = "prepared"
  /\ cfg.strategy = "posix_spawn"
  /\ \E r1 \in BOOLEAN, r2 \in BOOLEAN :
       LET first == ~cfg.env_empty
           c1 == IF first /\ r1 THEN Started ELSE NoChild
           c2 == IF r2 THEN Started ELSE NoChild
           \* the only child, if there is one, is child 1
           kids == IF c1.st = "run" THEN <<c1, c2>> ELSE <<c2, NoChild>>
       IN /\ (~first => r1 = FALSE)
          /\ child' = [c \in Children |-> kids[c]]
          /\ pid_' = IF ~r2 THEN INVALID_NATIVE_HANDLE_VALUE
                     ELSE IF c1.st = "run" THEN 2 ELSE 1
          /\ attempts' = attempts + (IF first THEN 2 ELSE 1)
  /\ pc' = "spawned"
  /\ UNCHANGED <<cfg, in_buf, out_buf, err_buf, hnd, pfd, revents, sent, wr,
                 pipe, waited, waitpid_calls, open_failed, err, result,
                 not_run_vars, file, closes, close_all_calls>>

----------------------------------------------------------------------------
(* subprocess::manage_pipe_io and multiplexing_use_poll *)

\* Stdio::close_unused_pipe_ends_in_parent: the child's end of a Pipe or a
\* Buffer pipe, the descriptor of a File.
close_nothing_in_parent(h, k, b) == h
close_unused_pipe_ends_in_parent(h, k, b) ==
  IF k \in {"pipe", "buffer"}
    THEN [h EXCEPT ![ChildEnd(b)] = close_native_handle(h[ChildEnd(b)])]
  ELSE IF k = "file" THEN [h EXCEPT !.f = close_native_handle(h.f)]
  ELSE h

\* The handles on which close_unused_pipe_ends_in_parent issues close().
ClosedUnused(h) ==
  {<<b, ChildEnd(b)>> : b \in {x \in Streams :
       cfg.kind[x] \in {"pipe", "buffer"} /\ IssuesClose(h[x][ChildEnd(x)])}}
    \cup {<<b, "f">> : b \in {x \in Streams :
       cfg.kind[x] = "file" /\ IssuesClose(h[x].f)}}

\* Stdio::get_parent_pipe_fd_for_polling: only a Buffer has a descriptor to
\* poll, the parent's end of its pipe; otherwise tmp_handle (invalid) is used.
get_parent_fd_of_any_pipe(h, k, b) ==
  k \in {"buffer", "pipe"} /\ IsValid(h[ParentEnd(b)])
get_parent_pipe_fd_for_polling(h, k, b) ==
  k = "buffer" /\ IsValid(h[ParentEnd(b)])

\* The loop closes descriptors through its pollfd copies: the descriptor is
\* closed while the Pipe object still stores its number.
KeepPolled(h, b) == h
ClosePolled(h, b) ==
  [h EXCEPT ![ParentEnd(b)] = IF @ = "open" THEN "stale" ELSE @]

\* in = out = err = INVALID_NATIVE_HANDLE_VALUE after the loop; the references
\* are the Buffers' parent ends (tmp_handle for the other kinds).
AfterLoop(h) ==
  [b \in Streams |->
     IF cfg.kind[b] = "buffer"
       THEN [h[b] EXCEPT ![ParentEnd(b)] =
               IF OsOpen(@) THEN "leaked" ELSE "invalid"]
       ELSE h[b]]

\* The order of the tests of one loop iteration, each on the revents that
\* poll() stored.
AfterReadOut(p, rv) == IF p[2] /\ "IN" \in rv[2] THEN "read_err" ELSE "hup"
AfterWrite(p, rv) ==
  IF p[1] /\ "IN" \in rv[1] THEN "read_out" ELSE AfterReadOut(p, rv)
AfterPoll(p, rv) ==
  IF p[0] /\ "OUT" \in rv[0] THEN "write" ELSE AfterWrite(p, rv)

\* The while condition, and the test before the end of the loop body: the loop
\* goes on while some pollfd still has a descriptor.
loop_never_continues(p) == FALSE
loop_continues(p) == \E b \in Streams : p[b]

\* manage_pipe_io up to the first test of the while condition.
ManageBegin ==
  /\ pc = "spawned"
  /\ LET h1 == [b \in Streams |->
                  close_unused_pipe_ends_in_parent(hnd[b], cfg.kind[b], b)]
         p1 == [b \in Streams |->
                  get_parent_pipe_fd_for_polling(h1[b], cfg.kind[b], b)]
     IN /\ pfd' = p1
        /\ IF loop_continues(p1)
             THEN hnd' = h1 /\ pc' = "poll"
             ELSE hnd' = AfterLoop(h1) /\ pc' = "returned"
  /\ closes' = Bump(closes, ClosedUnused(hnd))
  /\ sent' = 0
  /\ UNCHANGED <<cfg, in_buf, out_buf, err_buf, revents, wr, pipe, child,
                 pid_, attempts, waited, waitpid_calls, open_failed, err, result,
                 not_run_vars, file, close_all_calls>>

\* What poll() reports for pollfd b.
Revents(b) ==
  IF ~pfd[b] THEN {}
  ELSE IF b = 0
    THEN (IF Space(0) > 0 THEN {"OUT"} ELSE {})
           \cup (IF Readers(0, hnd) THEN {} ELSE {"ERR"})
    ELSE (IF Len(pipe[b]) > 0 THEN {"IN"} ELSE {})
           \cup (IF Writers(b, hnd) THEN {} ELSE {"HUP"})

\* poll(fds, 3, -1) blocks until some descriptor has an event.
Poll ==
  /\ pc = "poll"
  /\ \E b \in Streams : Revents(b) # {}
  /\ revents' = [b \in Streams |-> Revents(b)]
  /\ pc' = AfterPoll(pfd, revents')
  /\ UNCHANGED <<cfg, in_buf, out_buf, err_buf, hnd, pfd, sent, wr, pipe,
                 child, pid_, attempts, waited, waitpid_calls, open_failed, err, result,
                 not_run_vars, file, closes, close_all_calls>>

\* poll() == -1 (interrupted): throw std::runtime_error("poll failed!").
PollFail ==
  /\ pc = "poll"
  /\ pc' = "threw"
  /\ err' = "poll"
  /\ UNCHANGED <<cfg, in_buf, out_buf, err_buf, hnd, pfd, revents, sent, wr,
                 pipe, child, pid_, attempts, waited, waitpid_calls, open_failed, result,
                 not_run_vars, file, closes, close_all_calls>>

\* write(fds[0].fd, stdin_str.data(), stdin_str.size()) on a blocking pipe:
\* the call returns once every byte is in the pipe, sleeping while the pipe is
\* full; with no reader left it returns what it wrote so far, or fails with
\* EPIPE (SIGPIPE first) when that is nothing.  A write of zero bytes returns 0.
\* After the call: remove_prefix(write_count), and close when stdin_str is empty.
stdin_never_empty(n, total) == FALSE
stdin_empty(n, total) == n = total

\* stdin_str.remove_prefix(write_count): the view starts write_count bytes
\* further into in_buf.
remove_no_prefix(removed, count) == removed
remove_prefix(removed, count) == removed + count

WriteDone(n) ==
  /\ sent' = remove_prefix(sent, n)
  /\ wr' = 0
  /\ IF stdin_empty(sent', Len(in_buf))
       THEN /\ hnd' = [hnd EXCEPT ![0] = ClosePolled(hnd[0], 0)]
            /\ pfd' = [pfd EXCEPT ![0] = FALSE]
            /\ closes' = Bump(closes, {<<0, "w">>})
       ELSE UNCHANGED <<hnd, pfd, closes>>
  /\ pc' = AfterWrite(pfd', revents)

Write ==
  /\ pc = "write"
  /\ LET left == Len(in_buf) - sent - wr
         k == Min(Space(0), left)
     IN \/ /\ left = 0
           /\ WriteDone(wr)
           /\ UNCHANGED <<pipe, err>>
        \/ /\ left > 0 /\ Readers(0, hnd) /\ k > 0
           /\ pipe' = [pipe EXCEPT ![0] =
                         @ \o SubSeq(in_buf, sent + wr + 1, sent + wr + k)]
           /\ IF k = left
                THEN WriteDone(wr + k)
                ELSE /\ wr' = wr + k
                     /\ UNCHANGED <<sent, hnd, pfd, pc, closes>>
           /\ UNCHANGED err
        \/ /\ left > 0 /\ ~Readers(0, hnd) /\ wr > 0
           /\ WriteDone(wr)
           /\ UNCHANGED <<pipe, err>>
        \/ /\ left > 0 /\ ~Readers(0, hnd) /\ wr = 0
           /\ \/ pc' = "threw" /\ err' = "write"
              \/ pc' = "killed" /\ UNCHANGED err
           /\ UNCHANGED <<sent, wr, hnd, pfd, pipe, closes>>
  /\ UNCHANGED <<cfg, in_buf, out_buf, err_buf, revents, child, pid_,
                 attempts, waited, waitpid_calls, open_failed, result,
                 not_run_vars, file, close_all_calls>>

\* read(fds[b].fd, buf, std::size(buf)): up to ChunkSize bytes, appended to the
\* destination; read_count == 0 closes the descriptor.
ReadInto(b, buf) ==
  LET n == Min(ChunkSize, Len(pipe[b]))
  IN /\ buf' = buf \o Take(pipe[b], n)
     /\ pipe' = [pipe EXCEPT ![b] = Drop(@, n)]
     /\ IF n = 0
          THEN /\ hnd' = [hnd EXCEPT ![b] = ClosePolled(hnd[b], b)]
               /\ pfd' = [pfd EXCEPT ![b] = FALSE]
               /\ closes' = Bump(closes, {<<b, "r">>})
          ELSE UNCHANGED <<hnd, pfd, closes>>

ReadOut ==
  /\ pc = "read_out"
  /\ ReadInto(1, out_buf)
  /\ pc' = AfterReadOut(pfd', revents)
  /\ UNCHANGED <<cfg, in_buf, err_buf, revents, sent, wr, child, pid_,
                 attempts, waited, waitpid_calls, open_failed, err, result,
                 not_run_vars, file, close_all_calls>>

ReadErr ==
  /\ pc = "read_err"
  /\ ReadInto(2, err_buf)
  /\ pc' = "hup"
  /\ UNCHANGED <<cfg, in_buf, out_buf, revents, sent, wr, child, pid_,
                 attempts, waited, waitpid_calls, open_failed, err, result,
                 not_run_vars, file, close_all_calls>>

\* read_count == -1: throw std::runtime_error(get_last_error_msg()).
ReadFail ==
  /\ pc \in {"read_out", "read_err"}
  /\ pc' = "threw"
  /\ err' = "read"
  /\ UNCHANGED <<cfg, in_buf, out_buf, err_buf, hnd, pfd, revents, sent, wr,
                 pipe, child, pid_, attempts, waited, waitpid_calls, open_failed, result,
                 not_run_vars, file, closes, close_all_calls>>

\* The tail of an iteration: every descriptor with POLLNVAL | POLLHUP |
\* POLLERR is closed; the loop ends when no descriptor is left.
Terminal(b) == pfd[b] /\ revents[b] \cap {"NVAL", "HUP", "ERR"} # {}

Hup ==
  /\ pc = "hup"
  /\ LET h1 == [b \in Streams |->
                  IF Terminal(b) THEN ClosePolled(hnd[b], b) ELSE hnd[b]]
         p1 == [b \in Streams |-> pfd[b] /\ ~Terminal(b)]
     IN /\ pfd' = p1
        /\ IF loop_continues(p1)
             THEN hnd' = h1 /\ pc' = "poll"
             ELSE hnd' = AfterLoop(h1) /\ pc' = "returned"
  /\ closes' = Bump(closes, {<<b, ParentEnd(b)>> : b \in {x \in Streams : Terminal(x)}})
  /\ UNCHANGED <<cfg, in_buf, out_buf, err_buf, revents, sent, wr, pipe,
                 child, pid_, attempts, waited, waitpid_calls, open_failed, err, result,
                 not_run_vars, file, close_all_calls>>

----------------------------------------------------------------------------
(* subprocess::wait_for_exit *)

\* WIFEXITED -> WEXITSTATUS, WIFSIGNALED -> 128 + WTERMSIG, otherwise the
\* initial return_code of -1.
Decode(status) ==
  IF status[1] = "exited" THEN status[2]
  ELSE IF status[1] = "signaled" THEN 128 + status[2]
  ELSE -1

\* Values an int status that waitpid never stored may decode to.
UninitStatuses == ExitStatuses \cup {<<"other", 0>>}

\* if (pid_ == INVALID_NATIVE_HANDLE_VALUE) return 127;
wait_never_skips(p) == FALSE
wait_skips(p) == p = INVALID_NATIVE_HANDLE_VALUE

\* pid_ invalid: 127 without waiting.  Otherwise waitpid(pid_, &status, 0)
\* blocks until that child has terminated and stores its status; its return
\* value is not looked at, so when it fails (interrupted by a signal) status is
\* decoded uninitialised.  The call is also possible on an object that was
\* never started (pid_ still has its initial value).
WaitForExit ==
  /\ pc \in {"start", "returned"}
  /\ \/ /\ wait_skips(pid_)
        /\ result' = 127
        /\ UNCHANGED <<waited, waitpid_calls>>
     \/ /\ ~wait_skips(pid_)
        /\ pid_ \in Children
        /\ child[pid_].st = "exited"
        /\ waited' = waited \cup {pid_}
        /\ waitpid_calls' = waitpid_calls + 1
        /\ result' = Decode(child[pid_].status)
     \/ /\ ~wait_skips(pid_)
        /\ \E s \in UninitStatuses : result' = Decode(s)
        /\ waitpid_calls' = waitpid_calls + 1
        /\ UNCHANGED waited
  /\ pc' = "done"
  /\ UNCHANGED <<cfg, in_buf, out_buf, err_buf, hnd, pfd, revents, sent, wr,
                 pipe, child, pid_, attempts, open_failed, err,
                 not_run_vars, file, closes, close_all_calls>>

\* The subprocess object goes away, after run() returned or while its
\* exception unwinds: ~File closes fd_ (close_native_handle, nothing when fd_
\* is already invalid); ~Stdio and Pipe close nothing.  With no File open the
\* destructors change nothing, which is a stuttering step.
Destroy ==
  /\ pc \in {"done", "threw", "closed"}
  /\ \E b \in Streams : IssuesClose(hnd[b].f)
  /\ hnd' = [b \in Streams |->
               [hnd[b] EXCEPT !.f = close_native_handle(@)]]
  /\ closes' = Bump(closes, {<<b, "f">> : b \in {x \in Streams : IssuesClose(hnd[x].f)}})
  /\ UNCHANGED <<cfg, in_buf, out_buf, err_buf, pfd, revents, sent, wr, pipe,
                 child, pid_, attempts, waited, waitpid_calls, open_failed, err, result, pc,
                 not_run_vars, file, close_all_calls>>

\* The handles on which Stdio::close_all issues close(): both ends of a Pipe
\* or of a Buffer's pipe, the descriptor of a File; nothing without redirect_.
ClosedAll(h) ==
  {d \in Streams \X Handles :
     /\ \/ cfg.kind[d[1]] \in {"pipe", "buffer"} /\ d[2] \in {"r", "w"}
        \/ cfg.kind[d[1]] = "file" /\ d[2] = "f"
     /\ IssuesClose(h[d[1]][d[2]])}

close_all(h, k) ==
  IF k \in {"pipe", "buffer"}
    THEN [h EXCEPT !.r = close_native_handle(h.r),
                   !.w = close_native_handle(h.w)]
  ELSE IF k = "file" THEN [h EXCEPT !.f = close_native_handle(h.f)]
  ELSE h

\* close_all() on stdin_, stdout_ and stderr_: on an object that was never
\* started, after run() has returned, after run_no_wait() has thrown, or once
\* more after an earlier close_all().
CloseAll ==
  /\ pc \in {"start", "done", "threw", "closed"}
  /\ close_all_calls < MaxCloseAll
  /\ close_all_calls' = close_all_calls + 1
  /\ hnd' = [b \in Streams |-> close_all(hnd[b], cfg.kind[b])]
  /\ closes' = Bump(closes, ClosedAll(hnd))
  /\ pc' = "closed"
  /\ UNCHANGED <<cfg, in_buf, out_buf, err_buf, pfd, revents, sent, wr, pipe,
                 child, pid_, attempts, waited, waitpid_calls, open_failed,
                 err, result, file, not_run_vars>>

----------------------------------------------------------------------------
(* The child processes *)

Exit(c, status) ==
  child' = [child EXCEPT ![c].st = "exited", ![c].status = status]

\* "/bin/cat -": read a byte from descriptor 0, write it to descriptor 1,
\* exit 0 at end of input.  A stdin that is no Buffer pipe is at end of input.
CatRead(c) ==
  /\ cfg.prog = "cat" /\ Live(c) /\ child[c].hold = <<>>
  /\ \/ /\ cfg.kind[0] = "buffer" /\ pipe[0] # <<>>
        /\ child' = [child EXCEPT ![c].hold = <<Head(pipe[0])>>]
        /\ pipe' = [pipe EXCEPT ![0] = Tail(@)]
     \/ /\ cfg.kind[0] # "buffer" \/ (pipe[0] = <<>> /\ ~Writers(0, hnd))
        /\ Exit(c, <<"exited", 0>>)
        /\ UNCHANGED pipe
  /\ UNCHANGED <<cfg, in_buf, out_buf, err_buf, hnd, pfd, revents, sent, wr,
                 pid_, attempts, waited, waitpid_calls, open_failed, err, result, pc,
                 not_run_vars, file, closes, close_all_calls>>

\* A blocking write of one byte to the child's descriptor b: it sleeps while
\* the pipe is full; with no reader the child dies of SIGPIPE.
CatWrite(c) ==
  /\ cfg.prog = "cat" /\ Live(c) /\ child[c].hold # <<>>
  /\ \/ /\ cfg.kind[1] \notin {"buffer", "file"}
        /\ child' = [child EXCEPT ![c].hold = <<>>]
        /\ UNCHANGED <<pipe, file>>
     \/ /\ cfg.kind[1] = "file"
        /\ file' = [file EXCEPT ![1] = @ \o child[c].hold]
        /\ child' = [child EXCEPT ![c].hold = <<>>]
        /\ UNCHANGED pipe
     \/ /\ cfg.kind[1] = "buffer" /\ Readers(1, hnd) /\ Space(1) > 0
        /\ pipe' = [pipe EXCEPT ![1] = @ \o child[c].hold]
        /\ child' = [child EXCEPT ![c].hold = <<>>]
        /\ UNCHANGED file
     \/ /\ cfg.kind[1] = "buffer" /\ ~Readers(1, hnd)
        /\ Exit(c, SigPipe)
        /\ UNCHANGED <<pipe, file>>
  /\ UNCHANGED <<cfg, in_buf, out_buf, err_buf, hnd, pfd, revents, sent, wr,
                 pid_, attempts, waited, waitpid_calls, open_failed, err, result, pc,
                 not_run_vars, closes, close_all_calls>>

\* bash -c "echo -n ...; echo -n ... >&2": writes out_data to descriptor 1 and
\* then err_data to descriptor 2, a byte at a time.
GenWriteOut(c) ==
  /\ cfg.prog = "gen" /\ Live(c) /\ child[c].opos < Len(cfg.out_data)
  /\ \/ /\ cfg.kind[1] = "file"
        /\ file' = [file EXCEPT ![1] = Append(@, cfg.out_data[child[c].opos + 1])]
        /\ child' = [child EXCEPT ![c].opos = @ + 1]
        /\ UNCHANGED pipe
     \/ /\ cfg.kind[1] = "buffer" /\ Readers(1, hnd) /\ Space(1) > 0
        /\ pipe' = [pipe EXCEPT ![1] = Append(@, cfg.out_data[child[c].opos + 1])]
        /\ child' = [child EXCEPT ![c].opos = @ + 1]
        /\ UNCHANGED file
     \/ /\ cfg.kind[1] = "buffer" /\ ~Readers(1, hnd)
        /\ Exit(c, SigPipe)
        /\ UNCHANGED <<pipe, file>>
  /\ UNCHANGED <<cfg, in_buf, out_buf, err_buf, hnd, pfd, revents, sent, wr,
                 pid_, attempts, waited, waitpid_calls, open_failed, err, result, pc,
                 not_run_vars, closes, close_all_calls>>

GenWriteErr(c) ==
  /\ cfg.prog = "gen" /\ Live(c)
  /\ child[c].opos = Len(cfg.out_data) /\ child[c].epos < Len(cfg.err_data)
  /\ \/ /\ cfg.kind[2] = "file"
        /\ file' = [file EXCEPT ![2] = Append(@, cfg.err_data[child[c].epos + 1])]
        /\ child' = [child EXCEPT ![c].epos = @ + 1]
        /\ UNCHANGED pipe
     \/ /\ cfg.kind[2] = "buffer" /\ Readers(2, hnd) /\ Space(2) > 0
        /\ pipe' = [pipe EXCEPT ![2] = Append(@, cfg.err_data[child[c].epos + 1])]
        /\ child' = [child EXCEPT ![c].epos = @ + 1]
        /\ UNCHANGED file
     \/ /\ cfg.kind[2] = "buffer" /\ ~Readers(2, hnd)
        /\ Exit(c, SigPipe)
        /\ UNCHANGED <<pipe, file>>
  /\ UNCHANGED <<cfg, in_buf, out_buf, err_buf, hnd, pfd, revents, sent, wr,
                 pid_, attempts, waited, waitpid_calls, open_failed, err, result, pc,
                 not_run_vars, closes, close_all_calls>>

\* The program ends: exit(N), or it is killed by a signal.
GenExit(c) ==
  /\ cfg.prog = "gen" /\ Live(c)
  /\ child[c].opos = Len(cfg.out_data) /\ child[c].epos = Len(cfg.err_data)
  /\ \E s \in ExitStatuses : Exit(c, s)
  /\ UNCHANGED <<cfg, in_buf, out_buf, err_buf, hnd, pfd, revents, sent, wr,
                 pipe, pid_, attempts, waited, waitpid_calls, open_failed, err, result, pc,
                 not_run_vars, file, closes, close_all_calls>>

\* execute_command_in_child when execv / execve returns: _Exit(127).
ExecFailed(c) ==
  /\ cfg.prog = "noexec" /\ Live(c)
  /\ Exit(c, <<"exited", 127>>)
  /\ UNCHANGED <<cfg, in_buf, out_buf, err_buf, hnd, pfd, revents, sent, wr,
                 pipe, pid_, attempts, waited, waitpid_calls, open_failed, err, result, pc,
                 not_run_vars, file, closes, close_all_calls>>

----------------------------------------------------------------------------
(* The pipeline: three objects sharing pipe1 and pipe2 (fork strategy) *)

CLive(s) == c_proc[s].st = "run"

\* Descriptors open in the parent, which fork() copies into the child.
ChainOpen == {d \in ChainPipes \X Ends : OsOpen(c_fd[d[1]][d[2]])}

\* Processes that have the read end / the write end of pipe p open.
CReaders(p) ==
  \/ OsOpen(c_fd[p].r)
  \/ \E s \in Stages : CLive(s) /\ <<p, "r">> \in c_proc[s].io \cup c_proc[s].leaks
CWriters(p) ==
  \/ OsOpen(c_fd[p].w)
  \/ \E s \in Stages : CLive(s) /\ <<p, "w">> \in c_proc[s].io \cup c_proc[s].leaks

\* The exit code of stage s (one code per stage, to tell the stages apart).
StageStatus(s) == <<"exited", s>>

\* Stdio::setup_stdio_in_child_process of the child's own bindings: dup2 of
\* the child's end onto 0 / 1, then both ends of that binding's pipe closed.
\* Nothing closes the descriptors of the other objects' pipes.
OwnPipes(s) == {StdinPipe(s), StdoutPipe(s)}
ChildIo(s, inherited) ==
  {<<StdinPipe(s), "r">>, <<StdoutPipe(s), "w">>} \cap inherited
ChildLeaks(s, inherited) == {d \in inherited : d[1] \notin OwnPipes(s)}

\* run_no_wait() of stage s up to fork(): pid < 0 throws "fork failed".
ChainFork(s) ==
  /\ c_pc = [op |-> "fork", s |-> s]
  /\ \/ /\ c_proc' = [c_proc EXCEPT ![s].st = "run",
                                    ![s].io = ChildIo(s, ChainOpen),
                                    ![s].leaks = ChildLeaks(s, ChainOpen)]
        /\ c_pc' = [op |-> "manage", s |-> s]
     \/ /\ c_pc' = [op |-> "threw", s |-> s]
        /\ UNCHANGED c_proc
  /\ UNCHANGED <<c_fd, c_pipe, c_out, c_res, not_chain_vars>>

\* manage_pipe_io() of stage s: the child's ends of its bindings are closed in
\* the parent; only p3 has a Buffer, so only p3 enters the poll loop.
ChainManage(s) ==
  /\ c_pc = [op |-> "manage", s |-> s]
  /\ c_fd' = [p \in ChainPipes |->
                [r |-> IF p = StdinPipe(s)
                         THEN close_native_handle(c_fd[p].r) ELSE c_fd[p].r,
                 w |-> IF p = StdoutPipe(s)
                         THEN close_native_handle(c_fd[p].w) ELSE c_fd[p].w]]
  /\ c_pc' = IF s < 3 THEN [op |-> "fork", s |-> s + 1]
                      ELSE [op |-> "pump", s |-> 3]
  /\ UNCHANGED <<c_proc, c_pipe, c_out, c_res, not_chain_vars>>

\* One iteration of multiplexing_use_poll in p3.run_no_wait(): poll() on the
\* read end of out's pipe, a read of one chunk on POLLIN, the descriptor
\* closed on POLLHUP, which ends the loop (out = INVALID_NATIVE_HANDLE_VALUE).
ChainPump ==
  /\ c_pc.op = "pump"
  /\ LET in == c_pipe[3] > 0
         hup == ~CWriters(3)
         n == Min(ChunkSize, c_pipe[3])
     IN /\ in \/ hup
        /\ c_out' = c_out + n
        /\ c_pipe' = [c_pipe EXCEPT ![3] = @ - n]
        /\ IF hup
             THEN /\ c_fd' = [c_fd EXCEPT ![3].r = "invalid"]
                  /\ c_pc' = [op |-> "wait", s |-> 1]
             ELSE UNCHANGED <<c_fd, c_pc>>
  /\ UNCHANGED <<c_proc, c_res, not_chain_vars>>

\* poll() == -1: throw std::runtime_error("poll failed!").
ChainPollFail ==
  /\ c_pc.op = "pump"
  /\ c_pc' = [op |-> "threw", s |-> 3]
  /\ UNCHANGED <<c_fd, c_proc, c_pipe, c_out, c_res, not_chain_vars>>

\* wait_for_exit() of stage s (pid_ is valid): waitpid blocks until that child
\* has terminated, or fails and leaves status uninitialised.
ChainWait(s) ==
  /\ c_pc = [op |-> "wait", s |-> s]
  /\ \/ /\ c_proc[s].st = "exited"
        /\ c_res' = [c_res EXCEPT ![s] = Decode(c_proc[s].status)]
     \/ \E u \in UninitStatuses : c_res' = [c_res EXCEPT ![s] = Decode(u)]
  /\ c_pc' = IF s < 3 THEN [op |-> "wait", s |-> s + 1]
                      ELSE [op |-> "end", s |-> 3]
  /\ UNCHANGED <<c_fd, c_proc, c_pipe, c_out, not_chain_vars>>

CExit(s, status) ==
  c_proc' = [c_proc EXCEPT ![s].st = "exited", ![s].status = status]

\* Stage 1 (echo): writes its bytes to descriptor 1 and exits.
ProducerWrite ==
  /\ CLive(1) /\ c_proc[1].left > 0
  /\ \/ /\ CReaders(1) /\ c_pipe[1] < PipeCap
        /\ c_pipe' = [c_pipe EXCEPT ![1] = @ + 1]
        /\ c_proc' = [c_proc EXCEPT ![1].left = @ - 1]
     \/ /\ ~CReaders(1)
        /\ CExit(1, SigPipe)
        /\ UNCHANGED c_pipe
  /\ UNCHANGED <<c_pc, c_fd, c_out, c_res, not_chain_vars>>

ProducerExit ==
  /\ CLive(1) /\ c_proc[1].left = 0
  /\ CExit(1, StageStatus(1))
  /\ UNCHANGED <<c_pc, c_fd, c_pipe, c_out, c_res, not_chain_vars>>

\* Stages 2 and 3 (sed, grep): copy descriptor 0 to descriptor 1 a byte at a
\* time and exit at end of input.
FilterRead(s) ==
  /\ s > 1 /\ CLive(s) /\ c_proc[s].hold = 0
  /\ \/ /\ c_pipe[StdinPipe(s)] > 0
        /\ c_pipe' = [c_pipe EXCEPT ![StdinPipe(s)] = @ - 1]
        /\ c_proc' = [c_proc EXCEPT ![s].hold = 1]
     \/ /\ c_pipe[StdinPipe(s)] = 0 /\ ~CWriters(StdinPipe(s))
        /\ CExit(s, StageStatus(s))
        /\ UNCHANGED c_pipe
  /\ UNCHANGED <<c_pc, c_fd, c_out, c_res, not_chain_vars>>

FilterWrite(s) ==
  /\ s > 1 /\ CLive(s) /\ c_proc[s].hold = 1
  /\ \/ /\ CReaders(StdoutPipe(s)) /\ c_pipe[StdoutPipe(s)] < PipeCap
        /\ c_pipe' = [c_pipe EXCEPT ![StdoutPipe(s)] = @ + 1]
        /\ c_proc' = [c_proc EXCEPT ![s].hold = 0]
     \/ /\ ~CReaders(StdoutPipe(s))
        /\ CExit(s, SigPipe)
        /\ UNCHANGED c_pipe
  /\ UNCHANGED <<c_pc, c_fd, c_out, c_res, not_chain_vars>>

\* A stage may end before it has read all its input (it fails, or it is a
\* program such as head).
FilterQuit(s) ==
  /\ s > 1 /\ CLive(s)
  /\ CExit(s, StageStatus(s))
  /\ UNCHANGED <<c_pc, c_fd, c_pipe, c_out, c_res, not_chain_vars>>

ChainInit ==
  /\ RunStart("fork", TRUE, [b \in Streams |-> "none"], "cat", 0, 0, 0,
              [b \in FileStreams |-> FALSE], [b \in FileStreams |-> 0])
  /\ \E n \in 0 .. MaxChain : ChainStart(n)
  /\ EnvStart(<<>>, <<>>)
  /\ ThreadStart({}, 0, 0, 0, FALSE)
  /\ PumpStart(0, 0, 0, Len(PumpOrder) + 1)
  /\ ChildStart([b \in Streams |-> "none"], "", {})
  /\ WinStart(<<>>, "unused")

ChainNext ==
  \/ \E s \in Stages : ChainFork(s)
  \/ \E s \in Stages : ChainManage(s)
  \/ ChainPump
  \/ ChainPollFail
  \/ \E s \in Stages : ChainWait(s)
  \/ ProducerWrite
  \/ ProducerExit
  \/ \E s \in Stages : FilterRead(s)
  \/ \E s \in Stages : FilterWrite(s)
  \/ \E s \in Stages : FilterQuit(s)

ChainSpec == ChainInit /\ [][ChainNext]_vars

----------------------------------------------------------------------------
(* The environment of the child *)

\* The caller's argument expressions are evaluated before the constructor
\* runs; env += M reads the parent's environment at that moment.
EnvEvaluate ==
  /\ e_pc = "args"
  /\ e_named' = [i \in 1 .. Len(e_args) |-> Evaluate(e_environ, e_args[i])]
  /\ e_pc' = "evaluated"
  /\ UNCHANGED <<e_environ, e_args, env_, e_child, not_env_vars>>

\* subprocess::subprocess(cmd, args...)
EnvConstruct ==
  /\ e_pc = "evaluated"
  /\ env_' = environments(e_named)
  /\ e_pc' = "constructed"
  /\ UNCHANGED <<e_environ, e_args, e_named, e_child, not_env_vars>>

\* The child reaches execve / execv.
EnvExec ==
  /\ e_pc = "constructed"
  /\ e_child' = child_environment(e_environ, env_)
  /\ e_pc' = "exec"
  /\ UNCHANGED <<e_environ, e_args, e_named, env_, not_env_vars>>

EnvInit ==
  /\ RunStart("fork", TRUE, [b \in Streams |-> "none"], "cat", 0, 0, 0,
              [b \in FileStreams |-> FALSE], [b \in FileStreams |-> 0])
  /\ ChainStart(0)
  /\ \E environ \in EnvMaps, n \in 1 .. MaxEnvArgs :
       \E args \in [1 .. n -> EnvExprs] : EnvStart(environ, args)
  /\ ThreadStart({}, 0, 0, 0, FALSE)
  /\ PumpStart(0, 0, 0, Len(PumpOrder) + 1)
  /\ ChildStart([b \in Streams |-> "none"], "", {})
  /\ WinStart(<<>>, "unused")

EnvNext == EnvEvaluate \/ EnvConstruct \/ EnvExec

EnvSpec == EnvInit /\ [][EnvNext]_vars

----------------------------------------------------------------------------
(* The thread-per-stream pump: read_write_per_thread *)

\* The parent's end of the pipe of stream b is open: the stream has a Buffer,
\* the process is alive, and the stream's thread has not left its function
\* (HandleGuard closes the descriptor when write_to_native_handle /
\* read_from_native_handle returns or throws).
TParentOpen(b) ==
  /\ b \in t_cfg.buffers
  /\ t_pc # "terminated"
  /\ t_pc = "spawned" \/ t_thr[b] \in {"run", "insert"}

TChildOpen == t_child.st = "run"

\* One std::thread per valid handle.
TThreads ==
  /\ t_pc = "spawned"
  /\ t_thr' = [b \in Streams |-> IF b \in t_cfg.buffers THEN "run" ELSE "none"]
  /\ t_pc' = "join"
  /\ UNCHANGED <<t_cfg, t_left, t_pipe, t_got, t_child, t_failed, t_res,
                 not_thread_vars>>

\* An exception that leaves the function of a std::thread ends the process
\* (std::terminate).
thread_throws(pcv) == "terminated"

\* write_to_native_handle in the thread of stdin: write until the view is
\* empty; a failed WriteFile (no process has the read end) throws
\* std::runtime_error.
TWrite ==
  /\ t_pc = "join" /\ t_thr[0] = "run"
  /\ \/ /\ t_left = 0
        /\ t_thr' = [t_thr EXCEPT ![0] = "finished"]
        /\ UNCHANGED <<t_left, t_pipe, t_failed, t_pc>>
     \/ /\ t_left > 0 /\ TChildOpen /\ t_pipe[0] < PipeCap
        /\ t_pipe' = [t_pipe EXCEPT ![0] = @ + 1]
        /\ t_left' = t_left - 1
        /\ UNCHANGED <<t_thr, t_failed, t_pc>>
     \/ /\ t_left > 0 /\ ~TChildOpen
        /\ t_failed' = t_failed \cup {0}
        /\ t_thr' = [t_thr EXCEPT ![0] = "threw"]
        /\ t_pc' = thread_throws(t_pc)
        /\ UNCHANGED <<t_left, t_pipe>>
  /\ UNCHANGED <<t_cfg, t_got, t_child, t_res, not_thread_vars>>

\* read_from_native_handle (Windows branch) when ReadFile fails: the loop
\* `while (ReadFile(...) && read_count > 0)` ends, as it does at end of input,
\* and the function returns.
read_failure(st) == "finished"

\* read_from_native_handle in the thread of stdout (1) or stderr (2): ReadFile
\* stores the next bytes of the pipe in the thread's buf[].
TRead(b) ==
  /\ t_pc = "join" /\ b \in FileStreams /\ t_thr[b] = "run"
  /\ \/ /\ t_pipe[b] > 0
        /\ t_pipe' = [t_pipe EXCEPT ![b] = @ - 1]
        /\ t_thr' = [t_thr EXCEPT ![b] = "insert"]
        /\ UNCHANGED <<t_got, t_failed, t_pc>>
     \/ /\ t_pipe[b] = 0 /\ ~TChildOpen
        /\ t_thr' = [t_thr EXCEPT ![b] = "finished"]
        /\ UNCHANGED <<t_pipe, t_got, t_failed, t_pc>>
     \/ /\ t_failed' = t_failed \cup {b}
        /\ t_thr' = [t_thr EXCEPT ![b] = read_failure(@)]
        /\ t_pc' = IF t_thr'[b] = "threw" THEN thread_throws(t_pc) ELSE t_pc
        /\ UNCHANGED <<t_pipe, t_got>>
  /\ UNCHANGED <<t_cfg, t_left, t_child, t_res, not_thread_vars>>

\* The vector that the Buffer of stream b refers to (Buffer::buf()), and the
\* byte in the buf[] of the thread of stream b: the child's bytes are numbered
\* in the order it writes them, and the pipe hands them on in that order.
Vec(b) == IF t_cfg.shared THEN 1 ELSE b
InBuf(b) == <<b, t_cfg.output[b] - t_child.left[b] - t_pipe[b]>>

\* Another thread is inside insert() on the same vector.
Racing(b) ==
  \E o \in FileStreams \ {b} : Vec(o) = Vec(b) /\ t_thr[o] = "insert"

\* out_buf.insert(out_buf.end(), buf, buf + read_count).  Nothing orders the
\* inserts of two threads: when they run on one vector at the same time (a
\* data race) the byte is appended, or it is lost (the other insert stores
\* over it), or the process crashes.
TInsert(b) ==
  /\ t_pc = "join" /\ b \in FileStreams /\ t_thr[b] = "insert"
  /\ \/ /\ t_got' = [t_got EXCEPT ![Vec(b)] = Append(@, InBuf(b))]
        /\ t_thr' = [t_thr EXCEPT ![b] = "run"]
        /\ UNCHANGED t_pc
     \/ /\ Racing(b)
        /\ t_thr' = [t_thr EXCEPT ![b] = "run"]
        /\ UNCHANGED <<t_got, t_pc>>
     \/ /\ Racing(b)
        /\ t_pc' = "crashed"
        /\ UNCHANGED <<t_got, t_thr>>
  /\ UNCHANGED <<t_cfg, t_left, t_pipe, t_child, t_failed, t_res,
                 not_thread_vars>>

\* for (auto &thread : threads) thread.join(); then manage_pipe_io and
\* run_no_wait return.
TJoin ==
  /\ t_pc = "join"
  /\ \A b \in Streams : t_thr[b] \in {"none", "finished"}
  /\ t_pc' = "returned"
  /\ UNCHANGED <<t_cfg, t_thr, t_left, t_pipe, t_got, t_child, t_failed,
                 t_res, not_thread_vars>>

\* wait_for_exit(): the child's exit code, 0 or, for a child whose write to
\* a pipe without reader failed, 1.
TWait ==
  /\ t_pc = "returned" /\ t_child.st # "run"
  /\ t_res' = IF t_child.st = "exited" THEN 0 ELSE 1
  /\ t_pc' = "done"
  /\ UNCHANGED <<t_cfg, t_thr, t_left, t_pipe, t_got, t_child, t_failed,
                 not_thread_vars>>

\* The child reads its stdin to the end, writes its output and exits.
TChildRead ==
  /\ TChildOpen /\ t_pipe[0] > 0
  /\ t_pipe' = [t_pipe EXCEPT ![0] = @ - 1]
  /\ UNCHANGED <<t_cfg, t_pc, t_thr, t_left, t_got, t_child, t_failed, t_res,
                 not_thread_vars>>

TChildWrite(b) ==
  /\ TChildOpen /\ b \in FileStreams /\ t_child.left[b] > 0
  /\ \/ /\ b \notin t_cfg.buffers
        /\ t_child' = [t_child EXCEPT !.left[b] = @ - 1]
        /\ UNCHANGED t_pipe
     \/ /\ TParentOpen(b) /\ t_pipe[b] < PipeCap
        /\ t_child' = [t_child EXCEPT !.left[b] = @ - 1]
        /\ t_pipe' = [t_pipe EXCEPT ![b] = @ + 1]
     \/ /\ b \in t_cfg.buffers /\ ~TParentOpen(b)
        /\ t_child' = [t_child EXCEPT !.st = "failed"]
        /\ UNCHANGED t_pipe
  /\ UNCHANGED <<t_cfg, t_pc, t_thr, t_left, t_got, t_failed, t_res,
                 not_thread_vars>>

TChildExit ==
  /\ TChildOpen /\ t_child.left = <<0, 0>>
  /\ 0 \in t_cfg.buffers => t_pipe[0] = 0 /\ ~TParentOpen(0)
  /\ t_child' = [t_child EXCEPT !.st = "exited"]
  /\ UNCHANGED <<t_cfg, t_pc, t_thr, t_left, t_pipe, t_got, t_failed, t_res,
                 not_thread_vars>>

ThreadInit ==
  /\ RunStart("fork", TRUE, [b \in Streams |-> "none"], "cat", 0, 0, 0,
              [b \in FileStreams |-> FALSE], [b \in FileStreams |-> 0])
  /\ ChainStart(0)
  /\ EnvStart(<<>>, <<>>)
  /\ \E bufs \in SUBSET Streams, ni \in 0 .. MaxThreadIn,
        no \in 0 .. MaxThreadOut, ne \in 0 .. MaxThreadOut, sh \in BOOLEAN :
       /\ 0 \notin bufs => ni = 0
       /\ sh => {1, 2} \subseteq bufs
       /\ ThreadStart(bufs, ni, no, ne, sh)
  /\ PumpStart(0, 0, 0, Len(PumpOrder) + 1)
  /\ ChildStart([b \in Streams |-> "none"], "", {})
  /\ WinStart(<<>>, "unused")

ThreadNext ==
  \/ TThreads
  \/ TWrite
  \/ \E b \in FileStreams : TRead(b)
  \/ \E b \in FileStreams : TInsert(b)
  \/ TJoin
  \/ TWait
  \/ TChildRead
  \/ \E b \in FileStreams : TChildWrite(b)
  \/ TChildExit

ThreadSpec == ThreadInit /\ [][ThreadNext]_vars

----------------------------------------------------------------------------
(* One child under each of the three pumps *)

Pump == IF m_run <= Len(PumpOrder) THEN PumpOrder[m_run] ELSE "none"

\* The child holds the read end of the stdin pipe and the write end of the
\* stdout pipe until it exits.
MChildLive == m_child.st # "exited"
MSpace(b) == PipeCap - Len(m_pipe[b])

\* Readiness of the parent's descriptor of stream b: writable / readable data,
\* an error on a write end without reader, a hang-up on a read end without
\* writer.
MEvents(b) ==
  IF b \notin m_open THEN {}
  ELSE IF b = 0
    THEN (IF MSpace(0) > 0 THEN {"OUT"} ELSE {})
           \cup (IF MChildLive THEN {} ELSE {"ERR"})
    ELSE (IF m_pipe[b] # <<>> THEN {"IN"} ELSE {})
           \cup (IF MChildLive THEN {} ELSE {"HUP"})

\* write(fd, stdin_str.data(), stdin_str.size()) on a blocking pipe, for a
\* payload of at most PIPE_BUF bytes: the call sleeps until the whole payload
\* fits and then returns its size (0 for an empty payload).  The child keeps
\* the read end until it has seen end of input, so the pipe has a reader.
write_count == Len(m_in) - m_sent

PumpWrite ==
  /\ MChildLive
  /\ MSpace(0) >= write_count
  /\ m_pipe' = [m_pipe EXCEPT ![0] = @ \o Drop(m_in, m_sent)]
  /\ m_sent' = m_sent + write_count

\* read(fd, buf, std::size(buf)): sleeps while the pipe is empty and has a
\* writer; otherwise up to ChunkSize bytes, 0 at end of input.
read_count == Min(ChunkSize, Len(m_pipe[1]))

\* out_buf.insert(out_buf.end(), buf, buf + read_count)
assign_bytes(v, bytes) == bytes
insert_at_end(v, bytes) == v \o bytes

PumpRead ==
  /\ m_pipe[1] # <<>> \/ ~MChildLive
  /\ m_out' = insert_at_end(m_out, Take(m_pipe[1], read_count))
  /\ m_pipe' = [m_pipe EXCEPT ![1] = Drop(@, read_count)]

\* The tests that follow the write branch and the read branch of stdout in
\* one iteration; the handle of stderr is invalid, its branch is skipped.
MAfterRead(loop) == loop
MAfterWrite(open, ready, loop) ==
  IF 1 \in open /\ 1 \in ready THEN "read" ELSE MAfterRead(loop)
MAfterWait(open, ready, loop) ==
  IF 0 \in open /\ 0 \in ready THEN "write" ELSE MAfterWrite(open, ready, loop)

\* The streams whose branch of the iteration runs: revents & POLLOUT for
\* stdin, revents & POLLIN for stdout and stderr; FD_ISSET after select().
PollReady(rv) ==
  {b \in Streams : IF b = 0 THEN "OUT" \in rv[b] ELSE "IN" \in rv[b]}
SelectReady(rv) == {b \in Streams : rv[b] # {}}

\* multiplexing_use_poll: the pollfd array is filled and the while condition
\* holds (fds[0].fd is valid).
UsePollEnter ==
  /\ Pump = "poll" /\ m_pc = "enter"
  /\ m_pc' = "wait"
  /\ UNCHANGED <<m_cfg, m_in, m_run, m_open, m_rev, m_thr, m_sent, m_pipe, m_out,
                 m_child, m_end, not_pump_vars>>

\* poll(fds, 3, -1): blocks until some descriptor has an event.
UsePollWait ==
  /\ Pump = "poll" /\ m_pc = "wait"
  /\ \E b \in Streams : MEvents(b) # {}
  /\ m_rev' = [b \in Streams |-> MEvents(b)]
  /\ m_pc' = MAfterWait(m_open, PollReady(m_rev'), "tail")
  /\ UNCHANGED <<m_cfg, m_in, m_run, m_open, m_thr, m_sent, m_pipe, m_out, m_child,
                 m_end, not_pump_vars>>

\* poll() == -1: throw std::runtime_error("poll failed!").
UsePollFail ==
  /\ Pump = "poll" /\ m_pc = "wait"
  /\ m_pc' = "threw"
  /\ UNCHANGED <<m_cfg, m_in, m_run, m_open, m_rev, m_thr, m_sent, m_pipe, m_out,
                 m_child, m_end, not_pump_vars>>

\* The POLLOUT branch: write, remove_prefix, close when stdin_str is empty.
UsePollWrite ==
  /\ Pump = "poll" /\ m_pc = "write"
  /\ PumpWrite
  /\ m_open' = m_open \ {0}
  /\ m_pc' = MAfterWrite(m_open', PollReady(m_rev), "tail")
  /\ UNCHANGED <<m_cfg, m_in, m_run, m_rev, m_thr, m_out, m_child, m_end,
                 not_pump_vars>>

\* The POLLIN branch of stdout: one read; read_count == 0 closes.
UsePollRead ==
  /\ Pump = "poll" /\ m_pc = "read"
  /\ PumpRead
  /\ m_open' = IF read_count = 0 THEN m_open \ {1} ELSE m_open
  /\ m_pc' = MAfterRead("tail")
  /\ UNCHANGED <<m_cfg, m_in, m_run, m_rev, m_thr, m_sent, m_child, m_end,
                 not_pump_vars>>

\* The for loop at the end of an iteration closes every descriptor with
\* POLLNVAL | POLLHUP | POLLERR; then the break test and the while condition.
UsePollTail ==
  /\ Pump = "poll" /\ m_pc = "tail"
  /\ m_open' = {b \in m_open : m_rev[b] \cap {"NVAL", "HUP", "ERR"} = {}}
  /\ m_pc' = IF m_open' = {} THEN "returned" ELSE "wait"
  /\ UNCHANGED <<m_cfg, m_in, m_run, m_rev, m_thr, m_sent, m_pipe, m_out, m_child,
                 m_end, not_pump_vars>>

\* multiplexing_use_select: the while condition holds (in is valid).
UseSelectEnter ==
  /\ Pump = "select" /\ m_pc = "enter"
  /\ m_pc' = "wait"
  /\ UNCHANGED <<m_cfg, m_in, m_run, m_open, m_rev, m_thr, m_sent, m_pipe, m_out,
                 m_child, m_end, not_pump_vars>>

\* select(max_fd + 1, &read_fds, &write_fds, nullptr, nullptr): a descriptor
\* stays in its set when a write / read on it would not sleep, which includes
\* an error and the end of input.
UseSelectWait ==
  /\ Pump = "select" /\ m_pc = "wait"
  /\ \E b \in Streams : MEvents(b) # {}
  /\ m_rev' = [b \in Streams |-> MEvents(b)]
  /\ m_pc' = MAfterWait(m_open, SelectReady(m_rev'), "wait")
  /\ UNCHANGED <<m_cfg, m_in, m_run, m_open, m_thr, m_sent, m_pipe, m_out, m_child,
                 m_end, not_pump_vars>>

\* ready == -1: throw std::runtime_error(get_last_error_msg()).
UseSelectFail ==
  /\ Pump = "select" /\ m_pc = "wait"
  /\ m_pc' = "threw"
  /\ UNCHANGED <<m_cfg, m_in, m_run, m_open, m_rev, m_thr, m_sent, m_pipe, m_out,
                 m_child, m_end, not_pump_vars>>

\* FD_ISSET(in, &write_fds): write, remove_prefix, close_native_handle(in)
\* when stdin_str is empty.  After the last branch comes the while condition.
MSelectLoop(open) == IF open = {} THEN "returned" ELSE "wait"

UseSelectWrite ==
  /\ Pump = "select" /\ m_pc = "write"
  /\ PumpWrite
  /\ m_open' = m_open \ {0}
  /\ m_pc' = MAfterWrite(m_open', SelectReady(m_rev), MSelectLoop(m_open'))
  /\ UNCHANGED <<m_cfg, m_in, m_run, m_rev, m_thr, m_out, m_child, m_end,
                 not_pump_vars>>

\* FD_ISSET(out, &read_fds): one read; read_count == 0 closes out.
UseSelectRead ==
  /\ Pump = "select" /\ m_pc = "read"
  /\ PumpRead
  /\ m_open' = IF read_count = 0 THEN m_open \ {1} ELSE m_open
  /\ m_pc' = MAfterRead(MSelectLoop(m_open'))
  /\ UNCHANGED <<m_cfg, m_in, m_run, m_rev, m_thr, m_sent, m_child, m_end,
                 not_pump_vars>>

\* read_write_per_thread: one std::thread for each valid handle.
PerThreadEnter ==
  /\ Pump = "thread" /\ m_pc = "enter"
  /\ m_thr' = [b \in Streams |-> IF b \in m_open THEN "run" ELSE "none"]
  /\ m_pc' = "join"
  /\ UNCHANGED <<m_cfg, m_in, m_run, m_open, m_rev, m_sent, m_pipe, m_out, m_child,
                 m_end, not_pump_vars>>

\* write_to_native_handle: write until write_view is empty; HandleGuard closes
\* the descriptor when the function returns.
PerThreadWrite ==
  /\ Pump = "thread" /\ m_thr[0] = "run"
  /\ PumpWrite
  /\ m_open' = m_open \ {0}
  /\ m_thr' = [m_thr EXCEPT ![0] = "finished"]
  /\ UNCHANGED <<m_cfg, m_in, m_run, m_pc, m_rev, m_out, m_child, m_end,
                 not_pump_vars>>

\* read_from_native_handle: read until read_count is 0; HandleGuard closes
\* the descriptor when the function returns.
PerThreadRead ==
  /\ Pump = "thread" /\ m_thr[1] = "run"
  /\ PumpRead
  /\ m_open' = IF read_count = 0 THEN m_open \ {1} ELSE m_open
  /\ m_thr' = [m_thr EXCEPT ![1] = IF read_count = 0 THEN "finished" ELSE @]
  /\ UNCHANGED <<m_cfg, m_in, m_run, m_pc, m_rev, m_sent, m_child, m_end,
                 not_pump_vars>>

\* for (auto &thread : threads) thread.join();
PerThreadJoin ==
  /\ Pump = "thread" /\ m_pc = "join"
  /\ \A b \in Streams : m_thr[b] \in {"none", "finished"}
  /\ m_pc' = "returned"
  /\ UNCHANGED <<m_cfg, m_in, m_run, m_open, m_rev, m_thr, m_sent, m_pipe, m_out,
                 m_child, m_end, not_pump_vars>>

\* The pump has returned: what the run ended with is kept and the next pump
\* is called on a fresh child.
PumpReturned ==
  /\ Pump # "none" /\ m_pc = "returned"
  /\ m_end' = [m_end EXCEPT ![m_run] =
                 [out_buf |-> m_out, stdin |-> m_child.got, open |-> m_open]]
  /\ m_run' = m_run + 1
  /\ PumpFresh
  /\ UNCHANGED <<m_cfg, m_in, not_pump_vars>>

\* The child (a program such as sort): reads descriptor 0 to the end of input,
\* then writes its output to descriptor 1 a byte at a time and exits.
MChildRead ==
  /\ Pump # "none" /\ m_child.st = "read"
  /\ \/ /\ m_pipe[0] # <<>>
        /\ m_child' = [m_child EXCEPT !.got = Append(@, Head(m_pipe[0]))]
        /\ m_pipe' = [m_pipe EXCEPT ![0] = Tail(@)]
     \/ /\ m_pipe[0] = <<>> /\ 0 \notin m_open
        /\ m_child' = [m_child EXCEPT !.st = "write"]
        /\ UNCHANGED m_pipe
  /\ UNCHANGED <<m_cfg, m_in, m_run, m_pc, m_open, m_rev, m_thr, m_sent, m_out,
                 m_end, not_pump_vars>>

\* The parent keeps the read end of the stdout pipe open while the child
\* lives, so the write sleeps on a full pipe and never fails.
MChildWrite ==
  /\ Pump # "none" /\ m_child.st = "write"
  /\ m_child.opos < Len(m_cfg.output)
  /\ 1 \in m_open /\ MSpace(1) > 0
  /\ m_pipe' = [m_pipe EXCEPT ![1] = Append(@, m_cfg.output[m_child.opos + 1])]
  /\ m_child' = [m_child EXCEPT !.opos = @ + 1]
  /\ UNCHANGED <<m_cfg, m_in, m_run, m_pc, m_open, m_rev, m_thr, m_sent, m_out,
                 m_end, not_pump_vars>>

MChildExit ==
  /\ Pump # "none" /\ m_child.st = "write"
  /\ m_child.opos = Len(m_cfg.output)
  /\ m_child' = [m_child EXCEPT !.st = "exited"]
  /\ UNCHANGED <<m_cfg, m_in, m_run, m_pc, m_open, m_rev, m_thr, m_sent, m_pipe,
                 m_out, m_end, not_pump_vars>>

PumpInit ==
  /\ RunStart("fork", TRUE, [b \in Streams |-> "none"], "cat", 0, 0, 0,
              [b \in FileStreams |-> FALSE], [b \in FileStreams |-> 0])
  /\ ChainStart(0)
  /\ EnvStart(<<>>, <<>>)
  /\ ThreadStart({}, 0, 0, 0, FALSE)
  /\ \E ni \in 0 .. MaxPumpIn, no \in 0 .. MaxPumpOut,
        np \in 0 .. MaxPumpPrior : PumpStart(ni, no, np, 1)
  /\ ChildStart([b \in Streams |-> "none"], "", {})
  /\ WinStart(<<>>, "unused")

PumpNext ==
  \/ UsePollEnter
  \/ UsePollWait
  \/ UsePollFail
  \/ UsePollWrite
  \/ UsePollRead
  \/ UsePollTail
  \/ UseSelectEnter
  \/ UseSelectWait
  \/ UseSelectFail
  \/ UseSelectWrite
  \/ UseSelectRead
  \/ PerThreadEnter
  \/ PerThreadWrite
  \/ PerThreadRead
  \/ PerThreadJoin
  \/ PumpReturned
  \/ MChildRead
  \/ MChildWrite
  \/ MChildExit

PumpSpec == PumpInit /\ [][PumpNext]_vars

----------------------------------------------------------------------------
(* The child branch of fork(): subprocess::execute_command_in_child *)

\* dup2(oldfd, newfd): nothing happens when oldfd is not an open descriptor
\* (EBADF) or when oldfd == newfd; otherwise newfd refers to what oldfd does.
dup2(t, oldfd, newfd) ==
  IF oldfd = INVALID_NATIVE_HANDLE_VALUE \/ t[oldfd] = ClosedFd THEN t
  ELSE [t EXCEPT ![newfd] = t[oldfd]]

\* close_native_handle(handle) on descriptor numbers: close(handle) when the
\* value is valid.
close_fd(t, handle) ==
  IF handle = INVALID_NATIVE_HANDLE_VALUE THEN t
  ELSE [t EXCEPT ![handle] = ClosedFd]

\* Stdio::setup_stdio_in_child_process on the child's descriptor table:
\* dup2 of the child's end (or of the File's descriptor) onto fileno(), then
\* close of both ends of the pipe (of the File's descriptor).
setup_stdio_in_child(t, h, k, b) ==
  IF k \in {"pipe", "buffer"}
    THEN close_fd(close_fd(dup2(t, h[ChildEnd(b)], b), h.r), h.w)
  ELSE IF k = "file" THEN close_fd(dup2(t, h.f, b), h.f)
  ELSE t

\* fork(): pid < 0 throws "fork failed" in the parent and there is no child;
\* pid == 0 is the child, which has a copy of the parent's descriptors.
ChildFork ==
  /\ x_pc = "prepared"
  /\ \/ x_pc' = "child"
     \/ x_pc' = "no child"
  /\ UNCHANGED <<x_cfg, x_fd, x_h, x_status, not_child_vars>>

\* stdin_, stdout_ and stderr_.setup_stdio_in_child_process(), in this order.
ChildSetup ==
  /\ x_pc = "child"
  /\ LET t0 == setup_stdio_in_child(x_fd, x_h[0], x_cfg.kind[0], 0)
         t1 == setup_stdio_in_child(t0, x_h[1], x_cfg.kind[1], 1)
     IN x_fd' = setup_stdio_in_child(t1, x_h[2], x_cfg.kind[2], 2)
  /\ x_h' = [b \in Streams |->
               IF x_cfg.kind[b] = "none" THEN x_h[b] ELSE NoFds]
  /\ x_pc' = "setup"
  /\ UNCHANGED <<x_cfg, x_status, not_child_vars>>

\* if (!cwd_.empty() && (-1 == chdir(cwd_.data()))) throw std::runtime_error:
\* the exception leaves execute_command_in_child and run_no_wait in the child
\* process.
chdir_throws(cwd) == cwd = "missing"

ChildChdir ==
  /\ x_pc = "setup"
  /\ x_pc' = IF chdir_throws(x_cfg.cwd) THEN "threw" ELSE "chdir"
  /\ UNCHANGED <<x_cfg, x_fd, x_h, x_status, not_child_vars>>

\* execve / execv: the program replaces the child's image and runs on the
\* descriptors 0, 1 and 2, or the call returns and the child ends in _Exit(127).
ChildExec ==
  /\ x_pc = "chdir"
  /\ \/ x_pc' = "program" /\ UNCHANGED x_status
     \/ x_pc' = "exited" /\ x_status' = 127
  /\ UNCHANGED <<x_cfg, x_fd, x_h, not_child_vars>>

\* The exception arrives in the code that called run() / run_no_wait(), which
\* the child executes as a second copy of the parent: a handler of the caller
\* catches it, or nothing does and std::terminate aborts the child.
ChildUnwind ==
  /\ x_pc = "threw"
  /\ \/ x_pc' = "caller" /\ UNCHANGED x_status
     \/ x_pc' = "exited" /\ x_status' = 128 + 6
  /\ UNCHANGED <<x_cfg, x_fd, x_h, not_child_vars>>

ChildInit ==
  /\ RunStart("fork", TRUE, [b \in Streams |-> "none"], "cat", 0, 0, 0,
              [b \in FileStreams |-> FALSE], [b \in FileStreams |-> 0])
  /\ ChainStart(0)
  /\ EnvStart(<<>>, <<>>)
  /\ ThreadStart({}, 0, 0, 0, FALSE)
  /\ PumpStart(0, 0, 0, Len(PumpOrder) + 1)
  /\ \E k \in [Streams -> Kinds], cwd \in {"", "dir", "missing"},
        closed \in SUBSET Streams :
       ChildStart(k, cwd, closed)
  /\ WinStart(<<>>, "unused")

ChildNext ==
  \/ ChildFork
  \/ ChildSetup
  \/ ChildChdir
  \/ ChildExec
  \/ ChildUnwind

ChildSpec == ChildInit /\ [][ChildNext]_vars

----------------------------------------------------------------------------
(* The command line of the Windows build *)

\* The characters that matter to quoting: a letter, the space, the double
\* quote, the backslash; and the terminating '\0'.
SP == " "
DQ == "\""
BS == "\\"
NUL == "NUL"
Chars == {"a", SP, DQ, BS}
Args == UNION {[1 .. n -> Chars] : n \in 0 .. MaxArgLen}
Program == <<"a">>

RECURSIVE ArgVectors(_)
ArgVectors(n) ==
  IF n = 0 THEN {<<>>}
  ELSE LET shorter == ArgVectors(n - 1)
       IN  shorter \cup {Append(v, a) : v \in {x \in shorter : Len(x) = n - 1},
                                        a \in Args}

\* std::any_of(cmd.begin(), cmd.end(), c <= ' ' || c == '"')
need_quota(cmd) == \E i \in 1 .. Len(cmd) : cmd[i] = SP \/ cmd[i] = DQ

\* for (auto c : cmd) { if (c == '"') push_back('\\'); push_back(c); }
RECURSIVE escape_quotes(_)
escape_quotes(cmd) ==
  IF cmd = <<>> THEN <<>>
  ELSE (IF Head(cmd) = DQ THEN <<BS, DQ>> ELSE <<Head(cmd)>>)
       \o escape_quotes(Tail(cmd))

\* What one pass of the loop over cmds adds after the separating space.
command_of(cmd) ==
  IF cmd = <<>> THEN <<DQ, DQ>>
  ELSE IF need_quota(cmd) THEN <<DQ>> \o escape_quotes(cmd) \o <<DQ>>
  ELSE cmd

RECURSIVE command_for(_)
command_for(cmds) ==
  IF cmds = <<>> THEN <<>>
  ELSE LET command == command_for(SubSeq(cmds, 1, Len(cmds) - 1))
       IN  (IF command # <<>> THEN Append(command, SP) ELSE command)
           \o command_of(cmds[Len(cmds)])

create_command_string_data(cmds) == Append(command_for(cmds), NUL)

\* The child's startup code splits the command line (CommandLineToArgvW, the
\* C runtime's argument parsing): arguments are separated by spaces outside
\* quotes; 2n backslashes before a double quote give n backslashes and the
\* quote opens or closes a quoted part; 2n+1 backslashes before a double quote
\* give n backslashes and a double quote character; backslashes not before a
\* double quote are themselves; two double quotes inside a quoted part give
\* one double quote character.
RECURSIVE Backslashes(_, _)
Backslashes(line, i) ==
  IF i <= Len(line) /\ line[i] = BS THEN 1 + Backslashes(line, i + 1) ELSE 0

Repeat(c, n) == [i \in 1 .. n |-> c]

RECURSIVE SplitFrom(_, _, _, _, _, _)
SplitFrom(line, i, quoted, arg, started, argv) ==
  IF i > Len(line) \/ line[i] = NUL
  THEN IF started THEN Append(argv, arg) ELSE argv
  ELSE IF line[i] = BS
  THEN LET n == Backslashes(line, i)
           j == i + n
       IN  IF j <= Len(line) /\ line[j] = DQ
           THEN IF n % 2 = 0
                THEN SplitFrom(line, j, quoted, arg \o Repeat(BS, n \div 2),
                               TRUE, argv)
                ELSE SplitFrom(line, j + 1, quoted,
                               Append(arg \o Repeat(BS, n \div 2), DQ),
                               TRUE, argv)
           ELSE SplitFrom(line, j, quoted, arg \o Repeat(BS, n), TRUE, argv)
  ELSE IF line[i] = DQ
  THEN IF quoted /\ i + 1 <= Len(line) /\ line[i + 1] = DQ
       THEN SplitFrom(line, i + 2, quoted, Append(arg, DQ), TRUE, argv)
       ELSE SplitFrom(line, i + 1, ~quoted, arg, TRUE, argv)
  ELSE IF line[i] = SP /\ ~quoted
  THEN IF started
       THEN SplitFrom(line, i + 1, FALSE, <<>>, FALSE, Append(argv, arg))
       ELSE SplitFrom(line, i + 1, FALSE, <<>>, FALSE, argv)
  ELSE SplitFrom(line, i + 1, quoted, Append(arg, line[i]), TRUE, argv)

CommandLineToArgv(line) == SplitFrom(line, 1, FALSE, <<>>, FALSE, <<>>)

\* run_no_wait: auto command = create_command_string_data(_cmd)
CreateCommand ==
  /\ w_pc = "cmds"
  /\ w_command' = create_command_string_data(w_cmds)
  /\ w_pc' = "command"
  /\ UNCHANGED <<w_cmds, w_argv, not_win_vars>>

\* CreateProcess(nullptr, command.data(), ...): the child starts and splits
\* its command line.
CreateProcess ==
  /\ w_pc = "command"
  /\ w_argv' = CommandLineToArgv(w_command)
  /\ w_pc' = "child"
  /\ UNCHANGED <<w_cmds, w_command, not_win_vars>>

WinInit ==
  /\ RunStart("fork", TRUE, [b \in Streams |-> "none"], "cat", 0, 0, 0,
              [b \in FileStreams |-> FALSE], [b \in FileStreams |-> 0])
  /\ ChainStart(0)
  /\ EnvStart(<<>>, <<>>)
  /\ ThreadStart({}, 0, 0, 0, FALSE)
  /\ PumpStart(0, 0, 0, Len(PumpOrder) + 1)
  /\ ChildStart([b \in Streams |-> "none"], "", {})
  /\ \E rest \in ArgVectors(MaxCmdArgs) : WinStart(<<Program>> \o rest, "cmds")

WinNext ==
  \/ CreateCommand
  \/ CreateProcess

WinSpec == WinInit /\ [][WinNext]_vars

----------------------------------------------------------------------------

Next ==
  \/ Prepare
  \/ SpawnFork
  \/ SpawnPosix
  \/ ManageBegin
  \/ Poll
  \/ PollFail
  \/ Write
  \/ ReadOut
  \/ ReadErr
  \/ ReadFail
  \/ Hup
  \/ WaitForExit
  \/ Destroy
  \/ CloseAll
  \/ \E c \in Children : CatRead(c)
  \/ \E c \in Children : CatWrite(c)
  \/ \E c \in Children : GenWriteOut(c)
  \/ \E c \in Children : GenWriteErr(c)
  \/ \E c \in Children : GenExit(c)
  \/ \E c \in Children : ExecFailed(c)

Spec == Init /\ [][Next]_vars

\* A program that uses the library either runs one subprocess object or the
\* pipeline of three: the part that is not used stays as constructed (no
\* redirection, or nothing to write for the first stage).
RunUnused ==
  /\ pc = "start" /\ close_all_calls = 0
  /\ \A b \in Streams : cfg.kind[b] = "none"
ChainUnused ==
  /\ c_pc = [op |-> "fork", s |-> 1]
  /\ \A s \in Stages : c_proc[s] = NoProc

ObjectsInit == Init \/ ChainInit

ObjectsNext ==
  \/ ChainUnused /\ Next
  \/ RunUnused /\ ChainNext

ObjectsSpec == ObjectsInit /\ [][ObjectsNext]_vars

TypeOK ==
  /\ pc \in {"start", "prepared", "spawned", "poll", "write", "read_out",
             "read_err", "hup", "returned", "done", "threw", "killed",
             "closed"}
  /\ \A b \in Streams : Len(pipe[b]) <= PipeCap
  /\ sent + wr <= Len(in_buf)
  /\ err \in {"none", "open", "fork", "poll", "write", "read"}
  /\ pc = "threw" => err # "none"
  /\ err # "none" => pc \in {"threw", "closed"}
  /\ close_all_calls <= MaxCloseAll

----------------------------------------------------------------------------
(* Properties *)

Created == {c \in Children : child[c].st # "none"}
OneChild == child[1].st # "none" /\ child[2].st = "none"
Captured(b) == cfg.kind[b] = "buffer"

\* Every native handle of the three bindings is closed in the parent and no
\* descriptor number is kept.
AllClosed ==
  \A b \in Streams : \A e \in {"r", "w", "f"} : hnd[b][e] = "invalid"

\* The File descriptors are gone: the object was destroyed, or had none open.
FilesClosed == \A b \in Streams : ~IsValid(hnd[b].f)

\* run_no_wait() made its process-creation calls and no child exists.
CreationFailed == attempts > 0 /\ Created = {}

\* Some step of a child is possible.
ChildCanStep ==
  \E c \in Children :
    \/ ENABLED CatRead(c)
    \/ ENABLED CatWrite(c)

\* C1: stdin bound to a buffer, stdout captured, the child copies stdin to
\* stdout: the parent is never asleep in its write() to the stdin pipe while
\* the child is asleep too (each waiting for the other to drain a pipe).
C1_PumpNeverStuck ==
  (cfg.prog = "cat" /\ Captured(0) /\ Captured(1) /\ OneChild /\ pc = "write")
    => (ENABLED Write \/ ChildCanStep)

\* C2: stdout and stderr captured into two buffers: when the pump has ended,
\* each buffer holds exactly the bytes the child wrote to that stream.
C2_CaptureComplete ==
  (cfg.prog = "gen" /\ Captured(1) /\ Captured(2) /\ OneChild
     /\ pc \in {"returned", "done"})
    => /\ out_buf = Take(cfg.out_data, child[1].opos)
       /\ err_buf = Take(cfg.err_data, child[1].epos)

\* C3: stdin bound to the buffer B, the child copies stdin to stdout, stdout
\* captured: when run() has returned the captured buffer equals B.
C3_RoundTrip ==
  (cfg.prog = "cat" /\ Captured(0) /\ Captured(1) /\ OneChild /\ pc = "done")
    => out_buf = in_buf

\* C4: once run() has returned, a child that exited with code N was reported
\* as N and a child killed by signal S as 128 + S.
C4_ExitCodeReported ==
  (pc = "done" /\ OneChild /\ child[1].st = "exited")
    => result = (IF child[1].status[1] = "exited"
                   THEN child[1].status[2] ELSE 128 + child[1].status[2])

\* C5: a command that cannot be executed: the spawning call raises no error
\* out of the pump (no failed write, no SIGPIPE) and run() returns 127.
C5_NotFoundIs127 ==
  cfg.prog = "noexec"
    => /\ ~(pc = "threw" /\ err = "write")
       /\ pc # "killed"

\* C6: one run_no_wait() issues one process-creation call and ends with at most
\* one child, the one whose identifier is in pid_ (or none and an invalid pid_).
C6_CreatedOnce ==
  pc \notin {"start", "prepared"}
    => /\ attempts <= 1
       /\ Cardinality(Created) <= 1
       /\ \A c \in Created : pid_ = c
       /\ (Created = {} => pid_ = INVALID_NATIVE_HANDLE_VALUE)

\* C7: when a read or a write of the pump has failed, run() does not end
\* before every created child has been waited for.
C7_PumpErrorStillWaits ==
  (pc = "threw" /\ err \in {"write", "read"}) => Created \subseteq waited

\* C8: process creation failed: when run_no_wait() returns or raises, every
\* native handle of the three bindings is closed.
C8_FailedSpawnClosesAll ==
  (CreationFailed /\ pc \in {"threw", "returned", "done"}) => AllClosed

\* C9: a File could not be opened while the bindings were prepared: once the
\* error has reached the caller (the object unwound, its File descriptors
\* gone), the pipe that each Buffer binding created is closed too.
C9_PrepareFailureUnwinds ==
  (pc = "threw" /\ err = "open" /\ FilesClosed)
    => \A b \in Streams :
         Captured(b) => hnd[b].r = "invalid" /\ hnd[b].w = "invalid"

\* C10: a redirect File that cannot be opened makes run_no_wait() raise, and
\* that call creates no child process (it issues no process-creation call);
\* nothing but cleanup (close_all, destruction) follows the error.
C10_OpenFailureNoChild ==
  open_failed # -1
    => /\ pc \in {"threw", "closed"} /\ err = "open"
       /\ attempts = 0
       /\ Created = {}

\* C10 witness: stdin's file was opened, stdout's could not be, the call threw.
C10_Witness ==
  /\ open_failed = 1
  /\ cfg.kind[0] = "file" /\ hnd[0].f = "open"
  /\ pc = "threw"

\* C11: every value wait_for_exit() returns is an exit code in 0 .. 255 (a
\* child's code, 128 + a signal number, or the sentinel 127); a status that is
\* neither "exited" nor "signaled" is reported as 127.
C11_ResultInRange == pc = "done" => result \in 0 .. 255

C13_WaitCarriedThrough ==
  (pc = "done" /\ pid_ # INVALID_NATIVE_HANDLE_VALUE) => pid_ \in waited

\* C14: run_no_wait() does not wait for the child: once a child exists, the
\* call is never asleep in poll() until the child writes, reads or exits.
C14_SpawnDoesNotWait == (pc = "poll" /\ OneChild) => ENABLED Poll

\* C15: a running child holds, of the descriptors made for the bindings of the
\* subprocess objects, only its own 0, 1 and 2: no end of a pipe of another
\* stage of the pipeline is open in it.
C15_NoDescriptorLeak == \A s \in Stages : CLive(s) => c_proc[s].leaks = {}

\* C16: in the pipeline started upstream-first, a stage whose upstream has
\* exited and whose input pipe is drained can read end of input; the parent
\* is never stuck before the last wait_for_exit() has returned; and each
\* wait_for_exit() returned the exit code of its own stage.
C16_PipelineCompletes ==
  /\ \A s \in 2 .. 3 :
       (CLive(s) /\ c_proc[s].hold = 0 /\ c_proc[s - 1].st = "exited"
          /\ c_pipe[StdinPipe(s)] = 0) => ENABLED FilterRead(s)
  /\ c_pc.op \notin {"end", "threw"} => ENABLED ChainNext
  /\ c_pc.op = "end" =>
       \A s \in Stages : c_res[s] = Decode(c_proc[s].status)

\* What the file of stream b must hold when child c is the child of the run.
FileAfter(b, c) ==
  (IF cfg.append[b] THEN cfg.prior[b] ELSE <<>>)
    \o (IF b = 1 THEN Take(cfg.out_data, child[c].opos)
                 ELSE Take(cfg.err_data, child[c].epos))

\* C17: stdout or stderr redirected to a file: after the run the file holds
\* exactly the child's output on that stream, after the prior content in
\* append mode and instead of it in truncate mode.
C17_FileContent ==
  (pc = "done" /\ cfg.prog = "gen" /\ Created # {})
    => \A b \in FileStreams :
         cfg.kind[b] = "file" => \E c \in Created : file[b] = FileAfter(b, c)

\* C18: in the parent, close() is issued at most once on each end of a Pipe
\* or of a Buffer's pipe, whatever the order of the pump's closes, its
\* errors, close_unused_pipe_ends_in_parent and close_all.
C18_CloseAtMostOnce ==
  \A b \in Streams : closes[b].r <= 1 /\ closes[b].w <= 1

\* C19: close_all() can be called on bindings that were never prepared; a
\* close_all() after an earlier close_all() changes no handle and issues no
\* close().
C19_CloseAllIdempotent ==
  [][/\ pc = "start" => ENABLED CloseAll
     /\ (close_all_calls >= 1 /\ close_all_calls' = close_all_calls + 1)
          => hnd' = hnd /\ closes' = closes]_vars

\* C19 witness: close_all() was called twice on an object that was never
\* started: stdin has no target, stdout is a Buffer whose two ends were closed
\* once each, stderr is a File that was never opened.
C19_Witness ==
  /\ close_all_calls = 2 /\ attempts = 0 /\ open_failed = -1
  /\ cfg.kind = (0 :> "none" @@ 1 :> "buffer" @@ 2 :> "file")
  /\ closes[1].r = 1 /\ closes[1].w = 1 /\ closes[2].f = 0

\* The pump is past the write step of its first iteration.
PastFirstWrite ==
  /\ attempts > 0
  /\ \/ pc \in {"read_out", "read_err", "hup", "returned", "done"}
     \/ (pc = "poll" /\ revents[0] # {})

Overwritten(environ, m) ==
  [k \in DOMAIN environ \cup DOMAIN m |->
     IF k \in DOMAIN m THEN m[k] ELSE environ[k]]

\* C21: a child created with the one named argument env += M starts with the
\* parent's environment in which every key of M has M's value, also a key
\* that the parent's environment already holds.
C21_EnvAddOverwrites ==
  (e_pc = "exec" /\ Len(e_args) = 1 /\ e_args[1].op = "add")
    => e_child = Overwritten(e_environ, e_args[1].m)

\* What `env[key] += val` is to give the child: the parent's value of key
\* with val at its end, every other variable as in the parent.
Appended(environ, key, val) ==
  [k \in DOMAIN environ \cup {key} |->
     IF k = key
       THEN (IF key \in DOMAIN environ THEN environ[key] ELSE <<>>) \o val
       ELSE environ[k]]

\* C22: a child created with the one named argument env[VAR] += value starts
\* with VAR equal to the parent's VAR followed by value, and with every other
\* variable as the parent has it.
C22_EnvItemAppended ==
  (e_pc = "exec" /\ Len(e_args) = 1 /\ e_args[1].op = "append")
    => e_child = Appended(e_environ, e_args[1].key, e_args[1].val)

\* C23: stdin is bound to a buffer and the one child has closed its stdin (it
\* exited) before the whole payload was written: the pump raises no write
\* error and the parent is not killed by SIGPIPE.
C23_EarlyStdinClose ==
  (Captured(0) /\ OneChild /\ ~Live(1) /\ sent < Len(in_buf)
     /\ pc \notin {"start", "prepared", "spawned"})
    => pc # "killed" /\ err # "write"

\* The parent is inside the pump loop of multiplexing_use_poll.
InPump == pc \in {"poll", "write", "read_out", "read_err", "hup"}

\* C24: the parent's copy of the child-side end of every Buffer pipe (read end
\* for stdin, write end for stdout and stderr) is still open until the
\* process-creation call has been made, and is closed, by exactly one close(),
\* whenever the parent is in the pump loop.
C24_ChildEndsClosedBeforePump ==
  \A b \in Streams : Captured(b) =>
    /\ pc \in {"start", "prepared", "spawned"}
         => hnd[b][ChildEnd(b)] = "open" /\ closes[b][ChildEnd(b)] = 0
    /\ InPump
         => /\ attempts > 0
            /\ ~OsOpen(hnd[b][ChildEnd(b)])
            /\ closes[b][ChildEnd(b)] = 1

\* C24 witness: three Buffers, the child is running and the parent is about
\* to make its first poll() call with the three child-side ends closed.
C24_Witness ==
  /\ \A b \in Streams : Captured(b) /\ closes[b][ChildEnd(b)] = 1
                          /\ revents[b] = {} /\ pfd[b]
  /\ OneChild /\ Live(1) /\ pc = "poll" /\ sent = 0
  /\ out_buf = <<>> /\ err_buf = <<>>

C26_WaitAfterPump ==
  /\ (pc = "done" \/ waitpid_calls > 0 \/ waited # {})
       => \A b \in Streams : ~pfd[b]
  /\ InPump => waitpid_calls = 0 /\ waited = {}

\* C26 witness: three Buffers, the child copied its input and exited, the
\* pump ended and run() waited for the child.
C26_Witness ==
  /\ \A b \in Streams : Captured(b) /\ ~pfd[b]
  /\ cfg.prog = "cat" /\ OneChild /\ out_buf # <<>>
  /\ pc = "done" /\ waitpid_calls = 1 /\ waited = {1}

\* The descriptors the poll loop still has.
Active == {b \in Streams : pfd[b]}

\* C27: in the poll loop no descriptor comes back into the active set; an
\* iteration that returned from poll() goes to a write or a read, or finds a
\* descriptor with a terminal condition; the write step ends with at least one
\* byte written or the stdin descriptor removed, a read step with at least one
\* byte read or its descriptor removed (unless read() itself failed), the last
\* step removes every descriptor with a terminal condition; and the loop is
\* left for wait_for_exit() exactly when no descriptor remains.
C27_PollLoopProgress ==
  [][InPump =>
       /\ Active' \subseteq Active
       /\ (pc = "poll" /\ pc' = "hup")
            => \E b \in Active : revents'[b] \cap {"NVAL", "HUP", "ERR"} # {}
       /\ (pc = "write" /\ pc' # "write")
            => sent' > sent \/ Active' # Active
       /\ (pc \in {"read_out", "read_err"} /\ pc' # pc /\ err' # "read")
            => \/ Len(out_buf') + Len(err_buf') > Len(out_buf) + Len(err_buf)
               \/ Active' # Active
       /\ (pc = "hup" /\ pc' # "hup")
            => /\ (\E b \in Streams : Terminal(b)) => Active' # Active
               /\ pc' = "returned" <=> Active' = {}
       /\ pc' = "returned" => Active' = {}
  ]_vars

\* C28: once the pump is over, a read or write call that failed in it has
\* reached the caller of run() as an exception: run() has not returned and
\* the process has not been ended instead.
C28_PumpFailureSurfaces ==
  (t_failed # {} /\ t_pc \notin {"spawned", "join"}) => t_pc = "threw"

\* C29: when preparing the bindings failed (a File could not be opened), the
\* files of stdout and stderr hold what they held before the call.
C29_PrepareFailureLeavesFiles ==
  (err = "open" /\ pc \in {"threw", "closed"})
    => \A b \in FileStreams : file[b] = cfg.prior[b]

\* C30: a run under the posix_spawn strategy has what the same run has under
\* fork-and-exec: at most one child is created, every created child has the
\* descriptors 0, 1 and 2 that execute_command_in_child would give it, and
\* for an executable that cannot be run a wait that was carried through (or
\* skipped for want of a child) yields 127.
C30_StrategiesAgree ==
  cfg.strategy = "posix_spawn" =>
    /\ Cardinality(Created) <= 1
    /\ \A c \in Created : child[c].io = Forked.io
    /\ (pc = "done" /\ cfg.prog = "noexec" /\ attempts > 0
          /\ (pid_ = INVALID_NATIVE_HANDLE_VALUE \/ pid_ \in waited))
         => result = 127

\* C31: the same child under the poll pump, the select pump and the
\* thread-per-stream pump: the three runs end with the same capture buffer,
\* the same bytes read by the child from its stdin and the same (empty) set of
\* open parent-side descriptors.
C31_PumpsAgree ==
  m_run > Len(PumpOrder)
    => \A j, k \in 1 .. Len(PumpOrder) : m_end[j] = m_end[k]

\* The bytes that write() has put into the stdin pipe so far, oldest first:
\* those still queued in the pipe and, before them, those the child has read.
\* A child running cat (one child, stdout captured) passes what it read on to
\* its stdout; the other programs read nothing.
Written ==
  IF cfg.prog = "cat"
    THEN out_buf \o pipe[1] \o child[1].hold \o pipe[0]
    ELSE pipe[0]

\* C32: at every step of the pump the bytes written to the child's stdin so
\* far are the first bytes of the payload, in payload order, and the bytes
\* still to be written are the rest of it: nothing is written twice and
\* nothing is skipped, also while a write has put only part of its bytes
\* into the pipe.
C32_StdinInPayloadOrder ==
  (InPump /\ Captured(0) /\ (cfg.prog = "cat" => OneChild /\ Captured(1)))
    => /\ sent + wr <= Len(in_buf)
       /\ Written = Take(in_buf, sent + wr)
       /\ Written \o Drop(in_buf, sent + wr) = in_buf

\* C32 witness: the write sleeps with part of the payload written; of that
\* part the child has passed some bytes on and holds one, and the rest is
\* still queued in the stdin pipe.
C32_Witness ==
  /\ pc = "write" /\ Captured(0) /\ Captured(1) /\ cfg.prog = "cat" /\ OneChild
  /\ wr > 0 /\ sent + wr < Len(in_buf)
  /\ pipe[1] # <<>> /\ child[1].hold # <<>> /\ pipe[0] # <<>>

\* C33: a stream with no redirection target, with a File or with a shared
\* Pipe is never in the pump's active set: the pump has no pollfd for it, gets
\* no events for it, is never in the write or read branch of it, and leaves
\* the parent's end of a shared Pipe as it was.
C33_OnlyBuffersPumped ==
  \A b \in Streams :
    cfg.kind[b] # "buffer"
      => /\ ~pfd[b]
         /\ revents[b] = {}
         /\ pc # <<"write", "read_out", "read_err">>[b + 1]
         /\ (InPump /\ cfg.kind[b] = "pipe"
               => hnd[b][ParentEnd(b)] = "open" /\ pipe[b] = <<>>)

\* C33 witness: the pump has polled with stdin bound to a buffer while
\* stdout is bound to a shared Pipe and stderr to a File.
C33_Witness ==
  /\ pc = "hup" /\ revents[0] # {}
  /\ cfg.kind[0] = "buffer" /\ cfg.kind[1] = "pipe" /\ cfg.kind[2] = "file"
  /\ Created # {}

\* C34: the child of fork() never gets back into the code that called
\* run_no_wait(): it ends in the program that exec started or in exit
\* status 127, also when chdir to the requested working directory fails.
C34_ChildNeverReturns ==
  /\ x_pc \notin {"threw", "caller"}
  /\ (x_pc = "exited" => x_status = 127)

\* What descriptor b of the child has to refer to: the child's end of the
\* pipe of a Pipe or Buffer, the File.
ChildTarget(b) ==
  IF x_cfg.kind[b] = "file" THEN FileFd(b) ELSE PipeFd(b, ChildEnd(b))

\* C36: when the program starts in the child, each of the descriptors 0, 1
\* and 2 that has a redirection target is open and refers to that target,
\* whatever descriptor numbers the targets had in the parent.
C36_ChildStdioBound ==
  x_pc = "program"
    => \A b \in Streams : x_cfg.kind[b] # "none" => x_fd[b] = ChildTarget(b)

\* run() of the single object has returned normally.
RunReturned == pc = "done" /\ attempts > 0

\* Every stage of the pipeline has been started (p3.run_no_wait() is past
\* manage_pipe_io's three close_unused_pipe_ends_in_parent calls), and
\* p3.run_no_wait() has returned.
AllStagesStarted == c_pc.op \in {"pump", "wait", "end"}
LastStageReturned == c_pc.op \in {"wait", "end"}

\* C35: after run() has returned normally no descriptor of the three bindings
\* is open in the parent: both ends of a Buffer's pipe, the File, the end of
\* a shared Pipe that was handed to the child; and once every stage of the
\* pipeline has been started both ends of the shared Pipes are closed in the
\* parent (and both ends of the last stage's Buffer pipe once its
\* run_no_wait() has returned).
C35_NoHandleLeftOpen ==
  /\ RunReturned
       => \A b \in Streams :
            /\ cfg.kind[b] = "buffer"
                 => ~OsOpen(hnd[b].r) /\ ~OsOpen(hnd[b].w)
            /\ cfg.kind[b] = "file" => ~OsOpen(hnd[b].f)
            /\ cfg.kind[b] = "pipe" => ~OsOpen(hnd[b][ChildEnd(b)])
  /\ AllStagesStarted
       => \A p \in {1, 2} : ~OsOpen(c_fd[p].r) /\ ~OsOpen(c_fd[p].w)
  /\ LastStageReturned => ~OsOpen(c_fd[3].r) /\ ~OsOpen(c_fd[3].w)

\* C35 witness: the pipeline has run to its end, every stage waited for, with
\* output captured through the Buffer of the last stage.
C35_Witness ==
  /\ c_pc.op = "end" /\ c_out > 0
  /\ \A s \in Stages : c_proc[s].st = "exited"

\* The bytes of stream b in vector v, in the order they stand there.
BytesOf(b, v) == SelectSeq(v, LAMBDA x : x[1] = b)

\* C37: with stdout and stderr bound to the same vector, the thread-per-stream
\* pump never has both reader threads inside an insert on that vector, and
\* when run() has returned (no read having failed) the vector holds every
\* byte of each stream, each stream's bytes in the order the child wrote them.
C37_SharedBufferAppends ==
  t_cfg.shared
    => /\ ~(t_thr[1] = "insert" /\ t_thr[2] = "insert")
       /\ (t_pc = "done" /\ t_failed = {}
             => \A b \in FileStreams :
                  BytesOf(b, t_got[1]) = [i \in 1 .. t_cfg.output[b] |-> <<b, i>>])

IsPrefix(p, v) == Len(p) <= Len(v) /\ SubSeq(v, 1, Len(p)) = p

C39_CommandLineRoundTrip == w_pc = "child" => w_argv = w_cmds

====
